---- MODULE Spec2Model ----
(***************************************************************************)
(* Verification model of tairitsu: the virtual stdio stream bridge         *)
(* (packages/vm/src/stream.rs, runtime.rs), the storage-proxy driver and   *)
(* its host service loop (packages/proto, packages/vm/src/lib.rs), and the *)
(* Registry / Container layer (packages/vm/src/registry.rs, container.rs). *)
(***************************************************************************)
EXTENDS Integers, Sequences, FiniteSets, TLC

\* ------------------------------------------------------------------ bounds
MaxWrites == 3      \* write calls the guest makes on its stdout
MaxSends == 3       \* responses the host puts on a Container's tx
MaxReq == 3         \* requests the storage-proxy driver issues
MaxOps == 2         \* Registry / Container operations the threads start in all
MaxContainers == 2  \* containers run_container creates
MaxDepth == 2       \* guest calls nested on one thread's stack

VARIABLES
    \* guest -> host direction
    guest,      \* "running" | "panicked": the thread inside Container::run
    txOut,      \* flume channel tx_out/rx_out: messages in flight to the host
    hostGot,    \* messages the host has taken with rx.recv(), in order
    written,    \* history: messages whose text the guest has written
    lastWrite,  \* history: the last write call, <<>> or <<[bytes, delivered, result]>>
    nWrites,    \* number of write calls so far
    \* host -> guest direction
    txIn,       \* flume channel tx_in/rx_in
    hostSent,   \* history: responses the host has sent, in order
    fwd,        \* the forwarding thread's local `msg`: <<>> or <<m>>
    tasks,      \* InputStream.tasks: Arc<Mutex<Vec<Res>>>
    rpc,        \* the guest's position in InputStream::read
    readLog,    \* history: the byte records read() has returned
    \* storage-proxy driver (guest) and the host service loop
    dpc,        \* driver: "idle" | "await" | "panicked"
    dreq,       \* driver: the request it is blocked on, <<>> or <<req>>
    nReq,       \* driver: requests issued so far
    got,        \* history: [req, resp] for every response the driver accepted
    hpc,        \* host loop: "recv" | "handle" | "exited"
    hcur,       \* host loop: the request being served, <<>> or <<req>>
    \* Registry, Containers and the threads using them
    images,         \* Registry.images: name -> <<>> or <<image>>
    containers,     \* Registry.containers: name -> <<>> or <<container id>>
    imagesLock,     \* holder of the images mutex: 0 (free) or a thread
    containersLock, \* holder of the containers mutex: 0 (free) or a thread
    poisoned,       \* the containers mutex was held by a thread that panicked
    storeLock,      \* holder of the Arc<Mutex<Store>> of the cloneable Container
    nextCid,        \* containers created so far
    handler,        \* container id -> its execute_handler slot is Some
    owned,          \* thread -> ids of the Containers it owns (moved out by stop)
    pc,             \* thread -> position
    op,             \* thread -> the Registry operation it is in
    frames,         \* thread -> stack of guest calls in progress, innermost last
    nOps,           \* operations started so far, by all threads
    ret,            \* thread -> result of its last finished operation
    present,        \* history: name -> registered and not removed since
    trapped,        \* history: ids of Containers a guest call on which has trapped
    called,         \* history: ids of Containers on which a guest call was started
    \* one call of a function of the codecs or of the host import registry
    arg,            \* <<>> or <<the arguments of the call>>
    res,            \* <<>> or <<what the call returned>>
    \* HostImportRegistry
    imports,        \* HostImportRegistry.imports: name -> <<>> or <<HostImport>>
    registered,     \* history: name -> <<>> or <<the last registration of the name>>
    invoked,        \* history: the handler invocations the last call made
    \* a BucketStore with the default multipart upload
    store,          \* the store behind get / set / delete: key -> <<>> or <<bytes>>
    nextUpload,     \* upload ids handed out so far
    appended,       \* history: upload id -> the parts appended to it, in order
    bres,           \* result of the last BucketStore call
    \* the native bucket driver
    files,          \* the bucket directory: key -> <<>> or <<the file's bytes>>
    cache,          \* ProxyBucket.cache: <<key, start, end>> -> <<>> or <<bytes>>
    multipart_cache, \* ProxyBucket.multipart_cache: upload id -> <<>> or <<parts>>
    nextNative,     \* upload ids handed out so far
    nres,           \* result of the last call of the driver
    \* WitCommandDispatcher
    handlers,       \* WitCommandDispatcher.handlers: name -> <<>> or <<boxed handler>>
    lastReg,        \* history: name -> <<>> or <<the last handler registered>>
    executed,       \* history: the handlers the last dispatch executed, in order
    wres            \* result of the last dispatch

outVars == <<guest, txOut, hostGot, written, lastWrite, nWrites>>
inVars == <<txIn, hostSent, fwd, tasks, rpc, readLog>>
proxyVars == <<dpc, dreq, nReq, got, hpc, hcur>>
regVars == <<images, containers, imagesLock, containersLock, poisoned, storeLock,
             nextCid, handler, owned, pc, op, frames, nOps, ret, present,
             trapped, called>>
hist == <<trapped, called>>
pureVars == <<arg, res>>
impVars == <<imports, registered, invoked>>
bucketVars == <<store, nextUpload, appended, bres>>
nativeVars == <<files, cache, multipart_cache, nextNative, nres>>
witVars == <<handlers, lastReg, executed, wres>>
extVars == <<bucketVars, nativeVars, witVars>>
vars == <<outVars, inVars, proxyVars, regVars, pureVars, impVars, extVars>>

\* ------------------------------------------------------------- wire text
\* Text is a sequence of tokens; a message is a sequence of payload tokens.
NL == "\n"
Payloads == {"a", "b"}
StreamMsgs == {<<p>> : p \in Payloads}

\* Mutant of Escape: a newline of the content is written as it is.
EscapeNothing(m) == m

\* The string escaping of serde_json and of ron: a newline of the content is
\* written as the two characters \n, here one token.
ESCN == "\\n"
Escape(m) == [i \in 1..Len(m) |-> IF m[i] = NL THEN ESCN ELSE m[i]]
Unescape(t) == [i \in 1..Len(t) |-> IF t[i] = ESCN THEN NL ELSE t[i]]

\* serde_json::to_string(&m)
JsonToString(m) == <<"{">> \o Escape(m) \o <<"}">>

\* serde_json::to_string(&ret).unwrap() + "\n"
JsonLine(m) == JsonToString(m) \o <<NL>>

RECURSIVE TrimLeft(_)
TrimLeft(b) == IF b # <<>> /\ Head(b) = NL THEN TrimLeft(Tail(b)) ELSE b

RECURSIVE TrimRight(_)
TrimRight(b) ==
    IF b # <<>> /\ b[Len(b)] = NL THEN TrimRight(SubSeq(b, 1, Len(b) - 1)) ELSE b

\* serde_json::from_slice::<Req>(bytes): one value of type Req, surrounded by
\* whitespace only. <<m>> on success, <<>> on a parse error.
FromSlice(bytes, Req) ==
    LET t == TrimRight(TrimLeft(bytes)) IN
    IF /\ Len(t) >= 2
       /\ Head(t) = "{"
       /\ t[Len(t)] = "}"
       /\ \A i \in 2..(Len(t) - 1) : t[i] # NL
       /\ Unescape(SubSeq(t, 2, Len(t) - 1)) \in Req
    THEN <<Unescape(SubSeq(t, 2, Len(t) - 1))>>
    ELSE <<>>

\* The byte strings a guest hands to one write call: every contiguous piece
\* of a two-record output text.
Texts == {JsonLine(m1) \o JsonLine(m2) : m1 \in StreamMsgs, m2 \in StreamMsgs}
Chunks ==
    UNION {{SubSeq(t, i, j) : i \in 1..j} : t \in Texts, j \in 1..8}

\* The message a chunk is the complete text of, if any (history only).
WholeTextOf(bytes) ==
    {m \in StreamMsgs :
        bytes \in {JsonToString(m), JsonLine(m),
                   <<NL>> \o JsonToString(m), <<NL>> \o JsonLine(m)}}

\* ------------------------------------------------- guest -> host direction
\* Mutant of OutputStreamWrite: the parsed message is sent twice.
OutputStreamWriteTwice(bytes, Req) ==
    LET msg == FromSlice(bytes, Req) IN
    IF msg = <<>>
    THEN guest' = "panicked" /\ txOut' = txOut
    ELSE txOut' = txOut \o <<msg[1], msg[1]>> /\ guest' = guest

\* OutputStream::write
OutputStreamWrite(bytes, Req) ==
    LET msg == FromSlice(bytes, Req) IN
    IF msg = <<>>
    THEN \* .expect("Failed to parse message") panics the calling thread
         /\ guest' = "panicked"
         /\ txOut' = txOut
    ELSE /\ txOut' = Append(txOut, msg[1])
         /\ guest' = guest

WriteResult(g) == IF g = "panicked" THEN "panic" ELSE "ok"

\* The guest writes `bytes` to its stdout.
GuestWrite(bytes) ==
    /\ guest = "running"
    /\ nWrites < MaxWrites
    /\ OutputStreamWrite(bytes, StreamMsgs)
    /\ nWrites' = nWrites + 1
    /\ written' = IF WholeTextOf(bytes) = {} THEN written
                  ELSE Append(written, CHOOSE m \in WholeTextOf(bytes) : TRUE)
    /\ lastWrite' = <<[bytes |-> bytes,
                       delivered |-> Len(txOut') - Len(txOut),
                       result |-> WriteResult(guest')]>>
    /\ UNCHANGED hostGot

\* The host's rx.recv()
HostRecv ==
    /\ txOut # <<>>
    /\ hostGot' = Append(hostGot, Head(txOut))
    /\ txOut' = Tail(txOut)
    /\ UNCHANGED <<guest, written, lastWrite, nWrites>>

\* ------------------------------------------------- host -> guest direction
\* The host's tx.send(ret)
HostSend(r) ==
    /\ Len(hostSent) < MaxSends
    /\ txIn' = Append(txIn, r)
    /\ hostSent' = Append(hostSent, r)
    /\ UNCHANGED <<fwd, tasks, rpc, readLog>>

\* Image::init's forwarding thread: `while let Ok(msg) = rx.recv()`
ForwarderRecv ==
    /\ fwd = <<>>
    /\ txIn # <<>>
    /\ fwd' = <<Head(txIn)>>
    /\ txIn' = Tail(txIn)
    /\ UNCHANGED <<hostSent, tasks, rpc, readLog>>

\* Image::init's forwarding thread: `tasks.lock().unwrap().push(msg)`
ForwarderPush ==
    /\ fwd # <<>>
    /\ tasks' = Append(tasks, fwd[1])
    /\ fwd' = <<>>
    /\ UNCHANGED <<txIn, hostSent, rpc, readLog>>

\* The guest calls read on its stdin.
ReadCall ==
    /\ rpc = "idle"
    /\ rpc' = "reading"
    /\ UNCHANGED <<txIn, hostSent, fwd, tasks, readLog>>

\* Mutant of ReadReturn: the newest message is taken (pop) instead of the oldest.
ReadReturnNewest ==
    /\ rpc = "reading"
    /\ Len(tasks) > 0
    /\ readLog' = Append(readLog, JsonLine(tasks[Len(tasks)]))
    /\ tasks' = SubSeq(tasks, 1, Len(tasks) - 1)
    /\ rpc' = "idle"
    /\ UNCHANGED <<txIn, hostSent, fwd>>

\* InputStream::read, `tasks.len() > 0` branch: remove(0), serialize, return
ReadReturn ==
    /\ rpc = "reading"
    /\ Len(tasks) > 0
    /\ readLog' = Append(readLog, JsonLine(Head(tasks)))
    /\ tasks' = Tail(tasks)
    /\ rpc' = "idle"
    /\ UNCHANGED <<txIn, hostSent, fwd>>

\* Mutant of ReadSleep: an empty queue makes the read return no data.
ReadReturnEmpty ==
    /\ rpc = "reading"
    /\ Len(tasks) = 0
    /\ readLog' = Append(readLog, <<>>)
    /\ rpc' = "idle"
    /\ UNCHANGED <<txIn, hostSent, fwd, tasks>>

\* InputStream::read, empty queue: drop the lock and sleep 100 ms
ReadSleep ==
    /\ rpc = "reading"
    /\ Len(tasks) = 0
    /\ rpc' = "sleeping"
    /\ UNCHANGED <<txIn, hostSent, fwd, tasks, readLog>>

\* InputStream::read: the sleep ends and the loop retries
ReadWake ==
    /\ rpc = "sleeping"
    /\ rpc' = "reading"
    /\ UNCHANGED <<txIn, hostSent, fwd, tasks, readLog>>

ReadStep == ReadReturn \/ ReadSleep \/ ReadWake

\* ------------------------------------------- storage proxy over the bridge
\* RequestMsg / ResponseMsg as the driver and the host loop use them. The
\* second token stands for the statement text, and in a response for the
\* result computed from that statement.
\* The text ends with a newline of its own or not.
TextEnds == {<<>>, <<NL>>}
RequestMsgs ==
    {<<k, ToString(i)>> \o e : k \in {"Query", "Execute", "Debug"}, i \in 1..MaxReq,
                               e \in TextEnds}
ResponseMsgs ==
    {<<k, ToString(i)>> \o e : k \in {"Query", "Execute"}, i \in 1..MaxReq, e \in TextEnds}

\* println!("{}", ron::to_string(&msg).unwrap()): one record and a newline.
\* The token text does not tell RON's punctuation from serde_json's.
RonLine(m) == <<"{">> \o Escape(m) \o <<"}", NL>>

\* ron::from_str::<ResponseMsg>(&input): <<m>>, or <<>> on a parse error
RonFromStr(line) == FromSlice(line, ResponseMsgs)

\* The driver prints a request and, for Query / Execute, blocks in read_line.
DriverIssue(kind) ==
    /\ dpc = "idle"
    /\ guest = "running"
    /\ nReq < MaxReq
    /\ \E e \in TextEnds :
        LET req == <<kind, ToString(nReq + 1)>> \o e IN
        /\ OutputStreamWrite(RonLine(req), RequestMsgs)
        /\ lastWrite' = <<[bytes |-> RonLine(req),
                           delivered |-> Len(txOut') - Len(txOut),
                           result |-> WriteResult(guest')]>>
        /\ nReq' = nReq + 1
        /\ IF kind = "Debug"
           THEN UNCHANGED <<dpc, dreq, rpc>>
           ELSE /\ dpc' = "await"
                /\ dreq' = <<req>>
                /\ rpc' = "reading"
    /\ UNCHANGED <<hostGot, written, nWrites>>
    /\ UNCHANGED <<txIn, hostSent, fwd, tasks, readLog>>
    /\ UNCHANGED <<got, hpc, hcur>>

\* ProxyDb::query
DriverQuery == DriverIssue("Query")

\* ProxyDb::execute
DriverExecute == DriverIssue("Execute")

\* main: the closing Debug print, which reads nothing back
DriverDebug == DriverIssue("Debug")

\* ProxyDb::query / execute after read_line returned: parse the line and
\* match on the response kind; any other kind hits unreachable!().
DriverMatch ==
    /\ dpc = "await"
    /\ rpc = "idle"
    /\ LET parsed == RonFromStr(readLog[Len(readLog)]) IN
        IF parsed # <<>> /\ parsed[1][1] = dreq[1][1]
        THEN /\ got' = Append(got, [req |-> dreq[1], resp |-> parsed[1]])
             /\ dpc' = "idle"
             /\ UNCHANGED guest
        ELSE /\ dpc' = "panicked"
             /\ guest' = "panicked"
             /\ UNCHANGED got
    /\ dreq' = <<>>
    /\ UNCHANGED <<txOut, hostGot, written, lastWrite, nWrites>>
    /\ UNCHANGED <<inVars, nReq, hpc, hcur>>

\* component_test: `while let Ok(msg) = rx.recv()` and the match on msg;
\* the Debug arm only prints.
HostTake ==
    /\ hpc = "recv"
    /\ HostRecv
    /\ IF Head(txOut)[1] = "Debug"
       THEN UNCHANGED <<hpc, hcur>>
       ELSE hpc' = "handle" /\ hcur' = <<Head(txOut)>>
    /\ UNCHANGED <<inVars, dpc, dreq, nReq, got>>

\* Mutant of HostReply: the Execute arm answers with a Query response.
HostReplyQueryOnly ==
    /\ hpc = "handle"
    /\ txIn' = Append(txIn, <<"Query">> \o Tail(hcur[1]))
    /\ hostSent' = Append(hostSent, <<"Query">> \o Tail(hcur[1]))
    /\ hpc' = "recv"
    /\ hcur' = <<>>
    /\ UNCHANGED <<outVars, fwd, tasks, rpc, readLog, dpc, dreq, nReq, got>>

\* component_test, Execute and Query arms: run the statement, build the
\* response of the request's kind, tx.send(ret)
HostReply ==
    /\ hpc = "handle"
    /\ txIn' = Append(txIn, <<hcur[1][1]>> \o Tail(hcur[1]))
    /\ hostSent' = Append(hostSent, <<hcur[1][1]>> \o Tail(hcur[1]))
    /\ hpc' = "recv"
    /\ hcur' = <<>>
    /\ UNCHANGED <<outVars, fwd, tasks, rpc, readLog, dpc, dreq, nReq, got>>

\* component_test: db.execute(sql).await? fails (or an arm hits todo!()),
\* the loop is left and no response is sent.
HostFail ==
    /\ hpc = "handle"
    /\ hpc' = "exited"
    /\ hcur' = <<>>
    /\ UNCHANGED <<outVars, inVars, dpc, dreq, nReq, got>>

\* --------------------------------------------------- Registry and Container
Threads == {1, 2}
Names == {"a", "b"}
GoodBins == {"b1", "b2"}
Bins == GoodBins \cup {"bad"}
Cids == 1..MaxContainers
LegacyCid == 0      \* the cloneable Container of runtime.rs, shared by clones

NoOp == [f |-> "none", n |-> "a", m |-> "a"]
NoRet == [f |-> "none", ok |-> FALSE, names |-> {}, exp |-> FALSE, img |-> <<>>]

\* The calls a thread can make.
Ops ==
    {[f |-> f, n |-> n, m |-> b] :
        f \in {"register_image", "register_component"}, n \in Names, b \in Bins}
    \cup {[f |-> f, n |-> n, m |-> "a"] :
        f \in {"get_image", "remove_image", "stop_container"}, n \in Names}
    \cup {[f |-> f, n |-> "a", m |-> "a"] : f \in {"list_images", "list_containers"}}
    \cup {[f |-> "run_container", n |-> n, m |-> m] : n \in Names, m \in Names}
    \cup {[f |-> "get_container_mut", n |-> n, m |-> m] :
        n \in Names, m \in {"send_command", "on_execute"}}

FirstPc(o) ==
    CASE o.f \in {"register_image", "register_component"} -> "compile"
      [] o.f \in {"get_image", "remove_image", "list_images", "run_container"} -> "img_lock"
      [] OTHER -> "ctr_lock"

\* Where a thread continues when an operation returns: in the execute-handler
\* that made the call, or at top level.
Back(t) == IF frames[t] # <<>> THEN "handler" ELSE "idle"

Finish(t, r) ==
    /\ pc' = [pc EXCEPT ![t] = Back(t)]
    /\ ret' = [ret EXCEPT ![t] = r]
    /\ op' = [op EXCEPT ![t] = NoOp]

\* A thread, at top level or inside an execute-handler, calls a Registry method.
Call(t, o) ==
    /\ pc[t] \in {"idle", "handler"}
    /\ nOps < MaxOps
    /\ nOps' = nOps + 1
    /\ op' = [op EXCEPT ![t] = o]
    /\ pc' = [pc EXCEPT ![t] = FirstPc(o)]
    /\ ret' = [ret EXCEPT ![t] = NoRet]
    /\ UNCHANGED <<images, containers, imagesLock, containersLock, poisoned,
                   storeLock, nextCid, handler, owned, frames, present>>
    /\ UNCHANGED hist

\* Mutant of ImageNew: the result of the build is not looked at.
ImageNewUnchecked(t) ==
    /\ pc[t] = "compile"
    /\ pc' = [pc EXCEPT ![t] = "img_lock"]
    /\ UNCHANGED <<images, containers, imagesLock, containersLock, poisoned,
                   storeLock, nextCid, handler, owned, frames, nOps, present, op, ret>>
    /\ UNCHANGED hist

\* Image::new / Image::from_component inside register_image / register_component,
\* before any lock is taken; `?` returns the error.
ImageNew(t) ==
    /\ pc[t] = "compile"
    /\ IF op[t].m \in GoodBins
       THEN /\ pc' = [pc EXCEPT ![t] = "img_lock"]
            /\ UNCHANGED <<op, ret>>
       ELSE Finish(t, [NoRet EXCEPT !.f = op[t].f])
    /\ UNCHANGED <<images, containers, imagesLock, containersLock, poisoned,
                   storeLock, nextCid, handler, owned, frames, nOps, present>>
    /\ UNCHANGED hist

\* Mutant of LockImages: the lock is taken without waiting for its holder.
LockImagesNoWait(t) ==
    /\ pc[t] = "img_lock"
    /\ imagesLock' = t
    /\ pc' = [pc EXCEPT ![t] = "img_cs"]
    /\ UNCHANGED <<images, containers, containersLock, poisoned, storeLock,
                   nextCid, handler, owned, op, frames, nOps, ret, present>>
    /\ UNCHANGED hist

\* self.images.lock().unwrap()
LockImages(t) ==
    /\ pc[t] = "img_lock"
    /\ imagesLock = 0
    /\ imagesLock' = t
    /\ pc' = [pc EXCEPT ![t] = "img_cs"]
    /\ UNCHANGED <<images, containers, containersLock, poisoned, storeLock,
                   nextCid, handler, owned, op, frames, nOps, ret, present>>
    /\ UNCHANGED hist

\* Mutant of RegisterImage: a name already in the map keeps its image.
RegisterImageKeepsOld(t) ==
    /\ pc[t] = "img_cs"
    /\ op[t].f \in {"register_image", "register_component"}
    /\ images' = [images EXCEPT ![op[t].n] = IF @ = <<>> THEN <<op[t].m>> ELSE @]
    /\ present' = [present EXCEPT ![op[t].n] = TRUE]
    /\ imagesLock' = 0
    /\ Finish(t, [NoRet EXCEPT !.f = op[t].f, !.ok = TRUE])
    /\ UNCHANGED <<containers, containersLock, poisoned, storeLock, nextCid,
                   handler, owned, frames, nOps>>
    /\ UNCHANGED hist

\* register_image / register_component: images.insert(name, image); Ok(())
RegisterImage(t) ==
    /\ pc[t] = "img_cs"
    /\ op[t].f \in {"register_image", "register_component"}
    /\ images' = [images EXCEPT ![op[t].n] = <<op[t].m>>]
    /\ present' = [present EXCEPT ![op[t].n] = TRUE]
    /\ imagesLock' = 0
    /\ Finish(t, [NoRet EXCEPT !.f = op[t].f, !.ok = TRUE])
    /\ UNCHANGED <<containers, containersLock, poisoned, storeLock, nextCid,
                   handler, owned, frames, nOps>>
    /\ UNCHANGED hist

\* Mutant of GetImage: the entry is taken out of the map instead of cloned.
GetImageTake(t) ==
    /\ pc[t] = "img_cs"
    /\ op[t].f = "get_image"
    /\ images' = [images EXCEPT ![op[t].n] = <<>>]
    /\ imagesLock' = 0
    /\ Finish(t, [NoRet EXCEPT !.f = "get_image", !.ok = images[op[t].n] # <<>>,
                               !.exp = present[op[t].n], !.img = images[op[t].n]])
    /\ UNCHANGED <<containers, containersLock, poisoned, storeLock, nextCid,
                   handler, owned, frames, nOps, present>>
    /\ UNCHANGED hist

\* get_image: images.get(name).cloned()
GetImage(t) ==
    /\ pc[t] = "img_cs"
    /\ op[t].f = "get_image"
    /\ imagesLock' = 0
    /\ Finish(t, [NoRet EXCEPT !.f = "get_image", !.ok = images[op[t].n] # <<>>,
                               !.exp = present[op[t].n], !.img = images[op[t].n]])
    /\ UNCHANGED <<images, containers, containersLock, poisoned, storeLock,
                   nextCid, handler, owned, frames, nOps, present>>
    /\ UNCHANGED hist

\* remove_image: images.remove(name)
RemoveImage(t) ==
    /\ pc[t] = "img_cs"
    /\ op[t].f = "remove_image"
    /\ images' = [images EXCEPT ![op[t].n] = <<>>]
    /\ present' = [present EXCEPT ![op[t].n] = FALSE]
    /\ imagesLock' = 0
    /\ Finish(t, [NoRet EXCEPT !.f = "remove_image", !.ok = images[op[t].n] # <<>>])
    /\ UNCHANGED <<containers, containersLock, poisoned, storeLock, nextCid,
                   handler, owned, frames, nOps>>
    /\ UNCHANGED hist

\* list_images: images.keys().cloned().collect()
ListImages(t) ==
    /\ pc[t] = "img_cs"
    /\ op[t].f = "list_images"
    /\ imagesLock' = 0
    /\ Finish(t, [NoRet EXCEPT !.f = "list_images", !.ok = TRUE,
                               !.names = {n \in Names : images[n] # <<>>}])
    /\ UNCHANGED <<images, containers, containersLock, poisoned, storeLock,
                   nextCid, handler, owned, frames, nOps, present>>
    /\ UNCHANGED hist

\* run_container: self.get_image(image_name).context(..)?
RunContainerGetImage(t) ==
    /\ pc[t] = "img_cs"
    /\ op[t].f = "run_container"
    /\ imagesLock' = 0
    /\ IF images[op[t].n] # <<>>
       THEN /\ pc' = [pc EXCEPT ![t] = "instantiate"]
            /\ UNCHANGED <<op, ret>>
       ELSE Finish(t, [NoRet EXCEPT !.f = "run_container"])
    /\ UNCHANGED <<images, containers, containersLock, poisoned, storeLock,
                   nextCid, handler, owned, frames, nOps, present>>
    /\ UNCHANGED hist

\* run_container: Container::new(&image).context(..)?, with no lock held
ContainerNew(t, fails) ==
    /\ pc[t] = "instantiate"
    /\ IF fails \/ nextCid >= MaxContainers
       THEN Finish(t, [NoRet EXCEPT !.f = "run_container"])
       ELSE /\ pc' = [pc EXCEPT ![t] = "ctr_lock"]
            /\ UNCHANGED <<op, ret>>
    /\ UNCHANGED <<images, containers, imagesLock, containersLock, poisoned,
                   storeLock, nextCid, handler, owned, frames, nOps, present>>
    /\ UNCHANGED hist

\* self.containers.lock().unwrap(); unwrap panics when the mutex is poisoned
LockContainers(t) ==
    /\ pc[t] = "ctr_lock"
    /\ containersLock = 0
    /\ IF poisoned
       THEN /\ pc' = [pc EXCEPT ![t] = "panicked"]
            /\ frames' = [frames EXCEPT ![t] = <<>>]
            /\ UNCHANGED containersLock
       ELSE /\ pc' = [pc EXCEPT ![t] = "ctr_cs"]
            /\ containersLock' = t
            /\ UNCHANGED frames
    /\ UNCHANGED <<images, containers, imagesLock, poisoned, storeLock, nextCid,
                   handler, owned, op, nOps, ret, present>>
    /\ UNCHANGED hist

\* containers.lock() on the thread that already holds the mutex (a call made
\* from an execute-handler running under get_container_mut): std's Mutex
\* never returns from it; one outcome is that the thread blocks for ever,
LockContainersAgainBlocks(t) ==
    /\ pc[t] = "ctr_lock"
    /\ containersLock = t
    /\ pc' = [pc EXCEPT ![t] = "deadlocked"]
    /\ UNCHANGED <<images, containers, imagesLock, containersLock, poisoned,
                   storeLock, nextCid, handler, owned, op, frames, nOps, ret, present>>
    /\ UNCHANGED hist

\* the other that it panics: the unwinding drops the outer guard and poisons
\* the mutex.
LockContainersAgainPanics(t) ==
    /\ pc[t] = "ctr_lock"
    /\ containersLock = t
    /\ pc' = [pc EXCEPT ![t] = "panicked"]
    /\ frames' = [frames EXCEPT ![t] = <<>>]
    /\ containersLock' = 0
    /\ poisoned' = TRUE
    /\ UNCHANGED <<images, containers, imagesLock, storeLock, nextCid, handler,
                   owned, op, nOps, ret, present>>
    /\ UNCHANGED hist

\* Mutant of RunContainerInsert: a name already in the map keeps its container.
RunContainerInsertIfAbsent(t) ==
    /\ pc[t] = "ctr_cs"
    /\ op[t].f = "run_container"
    /\ nextCid < MaxContainers
    /\ nextCid' = nextCid + 1
    /\ containers' = [containers EXCEPT
                        ![op[t].m] = IF @ = <<>> THEN <<nextCid + 1>> ELSE @]
    /\ containersLock' = 0
    /\ Finish(t, [NoRet EXCEPT !.f = "run_container", !.ok = TRUE])
    /\ UNCHANGED <<images, imagesLock, poisoned, storeLock, handler, owned,
                   frames, nOps, present>>
    /\ UNCHANGED hist

\* run_container: containers.insert(container_name, container); Ok(())
RunContainerInsert(t) ==
    /\ pc[t] = "ctr_cs"
    /\ op[t].f = "run_container"
    /\ nextCid < MaxContainers
    /\ nextCid' = nextCid + 1
    /\ containers' = [containers EXCEPT ![op[t].m] = <<nextCid + 1>>]
    /\ containersLock' = 0
    /\ Finish(t, [NoRet EXCEPT !.f = "run_container", !.ok = TRUE])
    /\ UNCHANGED <<images, imagesLock, poisoned, storeLock, handler, owned,
                   frames, nOps, present>>
    /\ UNCHANGED hist

\* Mutant of StopContainer: the caller gets the Container, the map keeps it.
StopContainerKeepsEntry(t) ==
    /\ pc[t] = "ctr_cs"
    /\ op[t].f = "stop_container"
    /\ owned' = [owned EXCEPT ![t] = @ \cup {containers[op[t].n][i] :
                                            i \in 1..Len(containers[op[t].n])}]
    /\ containersLock' = 0
    /\ Finish(t, [NoRet EXCEPT !.f = "stop_container",
                               !.ok = containers[op[t].n] # <<>>])
    /\ UNCHANGED <<images, imagesLock, poisoned, storeLock, nextCid, handler,
                   frames, nOps, present, containers>>
    /\ UNCHANGED hist

\* stop_container: containers.remove(name), the Container moves to the caller
StopContainer(t) ==
    /\ pc[t] = "ctr_cs"
    /\ op[t].f = "stop_container"
    /\ containers' = [containers EXCEPT ![op[t].n] = <<>>]
    /\ owned' = [owned EXCEPT ![t] = @ \cup {containers[op[t].n][i] :
                                            i \in 1..Len(containers[op[t].n])}]
    /\ containersLock' = 0
    /\ Finish(t, [NoRet EXCEPT !.f = "stop_container",
                               !.ok = containers[op[t].n] # <<>>])
    /\ UNCHANGED <<images, imagesLock, poisoned, storeLock, nextCid, handler,
                   frames, nOps, present>>
    /\ UNCHANGED hist

\* list_containers: containers.keys().cloned().collect()
ListContainers(t) ==
    /\ pc[t] = "ctr_cs"
    /\ op[t].f = "list_containers"
    /\ containersLock' = 0
    /\ Finish(t, [NoRet EXCEPT !.f = "list_containers", !.ok = TRUE,
                               !.names = {n \in Names : containers[n] # <<>>}])
    /\ UNCHANGED <<images, containers, imagesLock, poisoned, storeLock, nextCid,
                   handler, owned, frames, nOps, present>>
    /\ UNCHANGED hist

\* get_container_mut: containers.get_mut(name) finds nothing, map(f) is None
GetContainerMutMiss(t) ==
    /\ pc[t] = "ctr_cs"
    /\ op[t].f = "get_container_mut"
    /\ containers[op[t].n] = <<>>
    /\ containersLock' = 0
    /\ Finish(t, [NoRet EXCEPT !.f = "get_container_mut"])
    /\ UNCHANGED <<images, containers, imagesLock, poisoned, storeLock, nextCid,
                   handler, owned, frames, nOps, present>>
    /\ UNCHANGED hist

\* get_container_mut with f = |c| c.on_execute(h): Container::on_execute
\* stores the handler; the guard is dropped on return.
GetContainerMutOnExecute(t) ==
    /\ pc[t] = "ctr_cs"
    /\ op[t].f = "get_container_mut"
    /\ op[t].m = "on_execute"
    /\ containers[op[t].n] # <<>>
    /\ handler' = [handler EXCEPT ![containers[op[t].n][1]] = TRUE]
    /\ containersLock' = 0
    /\ Finish(t, [NoRet EXCEPT !.f = "get_container_mut", !.ok = TRUE])
    /\ UNCHANGED <<images, containers, imagesLock, poisoned, storeLock, nextCid,
                   owned, frames, nOps, present>>
    /\ UNCHANGED hist

\* Mutant of GetContainerMutCall: the guard is dropped before f runs.
GetContainerMutCallUnlocked(t) ==
    /\ pc[t] = "ctr_cs"
    /\ op[t].f = "get_container_mut"
    /\ op[t].m = "send_command"
    /\ containers[op[t].n] # <<>>
    /\ Len(frames[t]) < MaxDepth
    /\ frames' = [frames EXCEPT ![t] =
                    Append(@, [c |-> containers[op[t].n][1], via |-> "direct"])]
    /\ containersLock' = 0
    /\ pc' = [pc EXCEPT ![t] = "guest"]
    /\ called' = called \cup {containers[op[t].n][1]}
    /\ UNCHANGED <<images, containers, imagesLock, poisoned, storeLock,
                   nextCid, handler, owned, op, nOps, ret, present, trapped>>

\* get_container_mut with f = |c| c.send_command(cmd): Container::send_command
\* enters the guest's handle_command while the containers guard is held.
GetContainerMutCall(t) ==
    /\ pc[t] = "ctr_cs"
    /\ op[t].f = "get_container_mut"
    /\ op[t].m = "send_command"
    /\ containers[op[t].n] # <<>>
    /\ Len(frames[t]) < MaxDepth
    /\ frames' = [frames EXCEPT ![t] =
                    Append(@, [c |-> containers[op[t].n][1], via |-> "registry"])]
    /\ pc' = [pc EXCEPT ![t] = "guest"]
    /\ called' = called \cup {containers[op[t].n][1]}
    /\ UNCHANGED <<images, containers, imagesLock, containersLock, poisoned,
                   storeLock, nextCid, handler, owned, op, nOps, ret, present,
                   trapped>>

\* Container::send_command / init called on a Container the thread owns
DirectCall(t, c) ==
    /\ pc[t] = "idle"
    /\ c \in owned[t]
    /\ nOps < MaxOps
    /\ nOps' = nOps + 1
    /\ frames' = [frames EXCEPT ![t] = Append(@, [c |-> c, via |-> "direct"])]
    /\ pc' = [pc EXCEPT ![t] = "guest"]
    /\ op' = [op EXCEPT ![t] = NoOp]
    /\ ret' = [ret EXCEPT ![t] = NoRet]
    /\ called' = called \cup {c}
    /\ UNCHANGED <<images, containers, imagesLock, containersLock, poisoned,
                   storeLock, nextCid, handler, owned, present, trapped>>

\* Mutant of DirectOnExecute: the slot is also set from inside a guest call.
DirectOnExecuteInCall(t, c) ==
    /\ pc[t] \in {"idle", "guest"}
    /\ c \in owned[t]
    /\ ~handler[c]
    /\ handler' = [handler EXCEPT ![c] = TRUE]
    /\ UNCHANGED <<images, containers, imagesLock, containersLock, poisoned,
                   storeLock, nextCid, owned, pc, op, frames, nOps, ret, present>>
    /\ UNCHANGED hist

\* Container::on_execute called on a Container the thread owns
DirectOnExecute(t, c) ==
    /\ pc[t] = "idle"
    /\ c \in owned[t]
    /\ ~handler[c]
    /\ handler' = [handler EXCEPT ![c] = TRUE]
    /\ UNCHANGED <<images, containers, imagesLock, containersLock, poisoned,
                   storeLock, nextCid, owned, pc, op, frames, nOps, ret, present>>
    /\ UNCHANGED hist

Top(t) == frames[t][Len(frames[t])]

\* HostState::execute with a handler installed: the guest calls the host and
\* the execute-handler starts running.
GuestCallsExecute(t) ==
    /\ pc[t] = "guest"
    /\ Top(t).c # LegacyCid
    /\ handler[Top(t).c]
    /\ pc' = [pc EXCEPT ![t] = "handler"]
    /\ UNCHANGED <<images, containers, imagesLock, containersLock, poisoned,
                   storeLock, nextCid, handler, owned, op, frames, nOps, ret, present>>
    /\ UNCHANGED hist

\* HostState::execute: handler(cmd)? and serialize_command, back in the guest
HandlerReturns(t) ==
    /\ pc[t] = "handler"
    /\ pc' = [pc EXCEPT ![t] = "guest"]
    /\ UNCHANGED <<images, containers, imagesLock, containersLock, poisoned,
                   storeLock, nextCid, handler, owned, op, frames, nOps, ret, present>>
    /\ UNCHANGED hist

\* The guest entry returns (Ok, Err or a trap): send_command / run returns
\* and the guard or store lock taken for the call is dropped.
GuestReturns(t, outcome) ==
    /\ pc[t] = "guest"
    /\ frames' = [frames EXCEPT ![t] = SubSeq(@, 1, Len(@) - 1)]
    /\ containersLock' = IF Top(t).via = "registry" THEN 0 ELSE containersLock
    /\ storeLock' = IF Top(t).via = "store" THEN 0 ELSE storeLock
    /\ pc' = [pc EXCEPT ![t] = IF Len(frames[t]) > 1 THEN "handler" ELSE "idle"]
    /\ ret' = [ret EXCEPT ![t] = [NoRet EXCEPT !.f = "guest_call", !.ok = outcome = "ok"]]
    /\ op' = [op EXCEPT ![t] = NoOp]
    /\ trapped' = IF outcome = "trap" /\ Top(t).c # LegacyCid
                  THEN trapped \cup {Top(t).c} ELSE trapped
    /\ UNCHANGED <<images, containers, imagesLock, poisoned, nextCid, handler,
                   owned, nOps, present, called>>

\* Container::run of runtime.rs on a clone: self.store.lock().unwrap(), then
\* the guest's run entry executes with the store lock held.
LegacyRun(t) ==
    /\ pc[t] = "idle"
    /\ nOps < MaxOps
    /\ storeLock = 0
    /\ storeLock' = t
    /\ nOps' = nOps + 1
    /\ frames' = [frames EXCEPT ![t] = Append(@, [c |-> LegacyCid, via |-> "store"])]
    /\ pc' = [pc EXCEPT ![t] = "guest"]
    /\ op' = [op EXCEPT ![t] = NoOp]
    /\ ret' = [ret EXCEPT ![t] = NoRet]
    /\ UNCHANGED <<images, containers, imagesLock, containersLock, poisoned,
                   nextCid, handler, owned, present, trapped, called>>

\* ------------------------------------------------------------ command codec
\* Text is a sequence of characters; a word that no rule looks inside ("type",
\* "Echo", "Host echoed: ") stands for its letters as one character.
MaxStr == 2         \* characters in a string argument
QUOTE == "\""
BSLASH == "\\"
Chars == {"x", QUOTE, BSLASH}

StrsUpTo(n) == UNION {[1..k -> Chars] : k \in 0..n}
Strs == StrsUpTo(MaxStr)
ShortStrs == StrsUpTo(1)

\* A value of one of the enums, or a parsed JSON value: a kind, a text and the
\* parts.
Node(k, s, a) == [k |-> k, s |-> s, a |-> a]
Str(s) == Node("str", s, <<>>)

\* commands.rs: the values of the four enums
HostCommandsVals ==
    {Node("GetInfo", <<>>, <<>>)}
    \cup {Node("Echo", s, <<>>) : s \in Strs}
    \cup {Node("Custom", <<>>, <<Str(n), Str(d)>>) : n \in Strs, d \in ShortStrs}
GuestCommandsVals ==
    {Node(k, s, <<>>) : k \in {"Greet", "Compute", "CallHost"}, s \in Strs}
    \cup {Node("Custom", <<>>, <<Str(n), Str(d)>>) : n \in Strs, d \in ShortStrs}
HostResponseVals ==
    {Node("Text", s, <<>>) : s \in Strs}
    \cup {Node("Info", <<>>, <<Str(n), Str(v), Str(st)>>) :
            n \in ShortStrs, v \in ShortStrs, st \in ShortStrs}
GuestResponseVals == {Node("Text", s, <<>>) : s \in Strs}

EnumVals(ty) ==
    CASE ty = "HostCommands" -> HostCommandsVals
      [] ty = "GuestCommands" -> GuestCommandsVals
      [] ty = "HostResponse" -> HostResponseVals
      [] ty = "GuestResponse" -> GuestResponseVals
EnumTypes == {"HostCommands", "GuestCommands", "HostResponse", "GuestResponse"}

\* Mutant of JsonEscape: the characters are written as they are.
JsonNoEscape(s) == s

\* serde_json's string writer: a quote or a backslash gets a backslash before it.
RECURSIVE JsonEscape(_)
JsonEscape(s) ==
    IF s = <<>> THEN <<>>
    ELSE (IF Head(s) \in {QUOTE, BSLASH} THEN <<BSLASH, Head(s)>> ELSE <<Head(s)>>)
         \o JsonEscape(Tail(s))

JsonStr(s) == <<QUOTE>> \o JsonEscape(s) \o <<QUOTE>>
JsonKey(k) == <<QUOTE, k, QUOTE, ":">>

\* #[serde(tag = "type", content = "data")]: {"type":"V"} for a unit variant,
\* {"type":"V","data":..} otherwise; a struct variant's data is an object.
TaggedToJson(v) ==
    LET tag == <<"{">> \o JsonKey("type") \o <<QUOTE, v.k, QUOTE>> IN
    CASE v.k = "GetInfo" -> tag \o <<"}">>
      [] v.k = "Custom" ->
            tag \o <<",">> \o JsonKey("data") \o <<"{">>
                \o JsonKey("name") \o JsonStr(v.a[1].s) \o <<",">>
                \o JsonKey("data") \o JsonStr(v.a[2].s) \o <<"}", "}">>
      [] OTHER -> tag \o <<",">> \o JsonKey("data") \o JsonStr(v.s) \o <<"}">>

\* #[serde(untagged)]: the variant's content alone.
UntaggedToJson(v) ==
    IF v.k = "Info"
    THEN <<"{">> \o JsonKey("name") \o JsonStr(v.a[1].s) \o <<",">>
               \o JsonKey("version") \o JsonStr(v.a[2].s) \o <<",">>
               \o JsonKey("status") \o JsonStr(v.a[3].s) \o <<"}">>
    ELSE JsonStr(v.s)

\* serialize_command: serde_json::to_string(cmd), which does not fail on
\* these enums.
serialize_command(ty, v) ==
    [ok |-> TRUE,
     text |-> IF ty \in {"HostCommands", "GuestCommands"}
              THEN TaggedToJson(v) ELSE UntaggedToJson(v)]

StrFail == [ok |-> FALSE, s |-> <<>>, rest |-> <<>>]
ValueFail == [ok |-> FALSE, v |-> Str(<<>>), rest |-> <<>>]
MembersFail == [ok |-> FALSE, v |-> <<>>, rest |-> <<>>]

\* serde_json's string reader, from after the opening quote to the closing
\* one; a backslash is followed by the character it stands for.
RECURSIVE ReadStr(_)
ReadStr(ts) ==
    IF ts = <<>> THEN StrFail
    ELSE IF Head(ts) = QUOTE THEN [ok |-> TRUE, s |-> <<>>, rest |-> Tail(ts)]
    ELSE IF Head(ts) = BSLASH
    THEN IF Len(ts) >= 2 /\ ts[2] \in {QUOTE, BSLASH}
         THEN LET r == ReadStr(SubSeq(ts, 3, Len(ts))) IN
              [ok |-> r.ok, s |-> <<ts[2]>> \o r.s, rest |-> r.rest]
         ELSE StrFail
    ELSE LET r == ReadStr(Tail(ts)) IN
         [ok |-> r.ok, s |-> <<Head(ts)>> \o r.s, rest |-> r.rest]

\* serde_json's value reader, for the values these enums are written as: a
\* string or an object.
RECURSIVE ReadValue(_)
RECURSIVE ReadMembers(_)
ReadValue(ts) ==
    IF ts = <<>> THEN ValueFail
    ELSE IF Head(ts) = QUOTE
    THEN LET r == ReadStr(Tail(ts)) IN
         [ok |-> r.ok, v |-> Node("jstr", r.s, <<>>), rest |-> r.rest]
    ELSE IF Head(ts) = "{"
    THEN IF Len(ts) >= 2 /\ ts[2] = "}"
         THEN [ok |-> TRUE, v |-> Node("jobj", <<>>, <<>>),
               rest |-> SubSeq(ts, 3, Len(ts))]
         ELSE LET r == ReadMembers(Tail(ts)) IN
              [ok |-> r.ok, v |-> Node("jobj", <<>>, r.v), rest |-> r.rest]
    ELSE ValueFail

ReadMembers(ts) ==
    IF ts = <<>> \/ Head(ts) # QUOTE THEN MembersFail
    ELSE LET k == ReadStr(Tail(ts)) IN
         IF ~k.ok \/ k.rest = <<>> \/ Head(k.rest) # ":" THEN MembersFail
         ELSE LET e == ReadValue(Tail(k.rest)) IN
              IF ~e.ok \/ e.rest = <<>> THEN MembersFail
              ELSE IF Head(e.rest) = "}"
              THEN [ok |-> TRUE, v |-> <<Node("entry", k.s, <<e.v>>)>>,
                    rest |-> Tail(e.rest)]
              ELSE IF Head(e.rest) = ","
              THEN LET m == ReadMembers(Tail(e.rest)) IN
                   [ok |-> m.ok, v |-> <<Node("entry", k.s, <<e.v>>)>> \o m.v,
                    rest |-> m.rest]
              ELSE MembersFail

\* The members of object j under one key.
Entries(j, key) == {i \in 1..Len(j.a) : j.a[i].s = <<key>>}
Member(j, key) == j.a[CHOOSE i \in Entries(j, key) : TRUE].a[1]
HasOne(j, key) == Cardinality(Entries(j, key)) = 1
HasStr(j, key) == HasOne(j, key) /\ Member(j, key).k = "jstr"

DecodeFail == [ok |-> FALSE, v |-> Str(<<>>)]

\* The element of a one-element set: The({e(x) : x \in {d}}) is e(d), with d
\* computed once.
The(S) == CHOOSE y \in S : TRUE

\* The derived Deserialize of an enum with tag = "type", content = "data":
\* an object with one "type" naming a variant and the variant's "data".
FromTagged(j, units, newtypes) ==
    IF j.k # "jobj" \/ ~HasStr(j, "type") \/ Cardinality(Entries(j, "data")) > 1
    THEN DecodeFail
    ELSE LET tag == Member(j, "type").s IN
         IF \E u \in units : tag = <<u>>
         THEN IF Entries(j, "data") = {}
              THEN [ok |-> TRUE, v |-> Node(tag[1], <<>>, <<>>)]
              ELSE DecodeFail
         ELSE IF \E n \in newtypes : tag = <<n>>
         THEN IF HasStr(j, "data")
              THEN [ok |-> TRUE, v |-> Node(tag[1], Member(j, "data").s, <<>>)]
              ELSE DecodeFail
         ELSE IF tag = <<"Custom">> /\ HasOne(j, "data")
         THEN LET d == Member(j, "data") IN
              IF d.k = "jobj" /\ HasStr(d, "name") /\ HasStr(d, "data")
              THEN [ok |-> TRUE,
                    v |-> Node("Custom", <<>>,
                               <<Str(Member(d, "name").s), Str(Member(d, "data").s)>>)]
              ELSE DecodeFail
         ELSE DecodeFail

\* The derived Deserialize of an untagged enum: the first variant, in
\* declaration order, that the value fits.
FromUntagged(j, withInfo) ==
    IF /\ withInfo
       /\ j.k = "jobj"
       /\ HasStr(j, "name") /\ HasStr(j, "version") /\ HasStr(j, "status")
    THEN [ok |-> TRUE,
          v |-> Node("Info", <<>>, <<Str(Member(j, "name").s),
                                     Str(Member(j, "version").s),
                                     Str(Member(j, "status").s)>>)]
    ELSE IF j.k = "jstr" THEN [ok |-> TRUE, v |-> Node("Text", j.s, <<>>)]
    ELSE DecodeFail

\* deserialize_command: serde_json::from_str::<T>(s); text left over after
\* the value is an error.
deserialize_command(ty, text) ==
    The({ IF ~r.ok \/ r.rest # <<>> THEN DecodeFail
          ELSE The({ CASE ty = "HostCommands" -> FromTagged(j, {"GetInfo"}, {"Echo"})
                       [] ty = "GuestCommands" ->
                            FromTagged(j, {}, {"Greet", "Compute", "CallHost"})
                       [] ty = "HostResponse" -> FromUntagged(j, TRUE)
                       [] ty = "GuestResponse" -> FromUntagged(j, FALSE)
                     : j \in {r.v} })
          : r \in {ReadValue(text)} })

\* tests::test_host_command_serialization, test_guest_command_serialization:
\* serialize, then deserialize as the same type. arg holds the call made, res
\* what it returned; each behaviour makes one call.
RoundTrip(ty, v) ==
    /\ arg = <<>>
    /\ arg' = <<[f |-> "roundtrip", ty |-> ty, v |-> v]>>
    /\ res' = <<deserialize_command(ty, serialize_command(ty, v).text)>>

\* ------------------------------------------- host functions and send_command
\* The execute_handler slot: <<>> for None, <<h>> for Some(h). "hybrid" is the
\* handler the hybrid example installs, "failing" one that returns Err.
Handlers == {"hybrid", "failing"}
Slots == {<<>>} \cup {<<h>> : h \in Handlers}

\* examples/hybrid host.rs: the closure given to on_execute
ApplyHandler(h, cmd) ==
    IF h = "failing" THEN [ok |-> FALSE, v |-> Str(<<>>), err |-> <<"boom">>]
    ELSE [ok |-> TRUE, err |-> <<>>,
          v |-> CASE cmd.k = "GetInfo" ->
                        Node("Info", <<>>, <<Str(<<"Tairitsu Host">>),
                                             Str(<<"0.1.0">>), Str(<<"running">>)>>)
                  [] cmd.k = "Echo" -> Node("Text", cmd.s, <<>>)
                  [] OTHER ->
                        Node("Text", <<"Custom command '">> \o cmd.a[1].s
                                     \o <<"' with data: ">> \o cmd.a[2].s, <<>>)]

\* Mutant of RunHandler: with no handler the call answers an empty text.
RunHandlerDefault(slot, cmd) ==
    IF slot # <<>>
    THEN The({ [ok |-> r.ok, invoked |-> <<cmd>>,
                out |-> IF r.ok THEN serialize_command("HostResponse", r.v).text
                        ELSE r.err]
               : r \in {ApplyHandler(slot[1], cmd)} })
    ELSE [ok |-> TRUE, out |-> JsonStr(<<>>), invoked |-> <<>>]

\* HostState::execute, after the command is parsed: handler(cmd)? and the
\* response serialized, or the error when the slot is empty.
RunHandler(slot, cmd) ==
    IF slot # <<>>
    THEN The({ [ok |-> r.ok, invoked |-> <<cmd>>,
                out |-> IF r.ok THEN serialize_command("HostResponse", r.v).text
                        ELSE r.err]
               : r \in {ApplyHandler(slot[1], cmd)} })
    ELSE [ok |-> FALSE, out |-> <<"No execute handler registered">>, invoked |-> <<>>]

\* Mutant of ParseOrCustom: the payload is left out of the fallback command.
ParseOrCustomNoPayload(d, command, payload) ==
    IF d.ok THEN d.v ELSE Node("Custom", <<>>, <<Str(command), Str(<<>>)>>)

\* HostState::execute, the command to run: the parsed one, or when the text
\* does not parse Custom{name: command, data: payload}.
ParseOrCustom(d, command, payload) ==
    IF d.ok THEN d.v ELSE Node("Custom", <<>>, <<Str(command), Str(payload)>>)

\* HostState::execute
HostStateExecute(slot, command, payload) ==
    The({ RunHandler(slot, cmd)
          : cmd \in {ParseOrCustom(d, command, payload) :
                        d \in {deserialize_command("HostCommands", command)}} })

\* LogLevel::from(&str): lower-case, then match, Info for anything else
LevelTexts == {"error", "WARN", "info", "debug", "trace", "verbose"}
LogLevelFrom(level) ==
    CASE level = "error" -> "error"
      [] level = "WARN" -> "warn"
      [] level = "debug" -> "debug"
      [] level = "trace" -> "trace"
      [] OTHER -> "info"

\* HostState::log: the handler when the slot is filled, eprintln! otherwise;
\* it returns nothing and cannot fail.
HostStateLog(slot, level, message) ==
    [ok |-> TRUE,
     invoked |-> IF slot # <<>> THEN <<Node(LogLevelFrom(level), message, <<>>)>> ELSE <<>>,
     out |-> IF slot # <<>> THEN <<>>
             ELSE <<"[", LogLevelFrom(level), "] ">> \o message]

\* What the guest's handle_command came to: a trap, Err(s) or Ok(s).
GuestOutcome(k, s) == Node(k, s, <<>>)

\* Mutant of send_command: the guest's Err(e) comes back as a response.
send_command_swallow(cmd, g) ==
    IF g.k = "trap"
    THEN [ok |-> FALSE, v |-> Str(<<>>), err |-> <<"Failed to call guest handle_command">>]
    ELSE IF g.k = "err" THEN [ok |-> TRUE, v |-> Node("Text", g.s, <<>>), err |-> <<>>]
    ELSE The({ IF d.ok THEN [ok |-> TRUE, v |-> d.v, err |-> <<>>]
               ELSE [ok |-> FALSE, v |-> Str(<<>>),
                     err |-> <<"Failed to deserialize response: ">>]
               : d \in {deserialize_command("GuestResponse", g.s)} })

\* Container::send_command, given what the guest's handle_command comes to.
send_command(cmd, g) ==
    LET ser == serialize_command("GuestCommands", cmd) IN
    IF ~ser.ok
    THEN [ok |-> FALSE, v |-> Str(<<>>), err |-> <<"Serialization error: ">>]
    ELSE IF g.k = "trap"
    THEN [ok |-> FALSE, v |-> Str(<<>>), err |-> <<"Failed to call guest handle_command">>]
    ELSE IF g.k = "err"
    THEN [ok |-> FALSE, v |-> Str(<<>>), err |-> <<"Guest handle_command failed: ">> \o g.s]
    ELSE The({ IF d.ok THEN [ok |-> TRUE, v |-> d.v, err |-> <<>>]
               ELSE [ok |-> FALSE, v |-> Str(<<>>),
                     err |-> <<"Failed to deserialize response: ">>]
               : d \in {deserialize_command("GuestResponse", g.s)} })

\* examples/hybrid lib.rs: the reply to a guest command
Reply(text) ==
    GuestOutcome("ok", serialize_command("GuestResponse", Node("Text", text, <<>>)).text)

\* examples/hybrid lib.rs, the CallHost arm after execute has returned r
AfterExecute(r) ==
    IF ~r.ok THEN GuestOutcome("err", <<"Host call failed: ">> \o r.out)
    ELSE The({ IF ~h.ok THEN GuestOutcome("err", <<"Failed to parse host response: ">>)
               ELSE IF h.v.k = "Text" THEN Reply(<<"Host echoed: ">> \o h.v.s)
               ELSE Reply(<<"Got info from ">> \o h.v.a[1].s)
               : h \in {deserialize_command("HostResponse", r.out)} })

\* examples/hybrid lib.rs: GuestImpl::handle_command, with the host's execute
\* served by HostState::execute on the given slot.
handle_command(command, slot) ==
    The({ IF ~d.ok
          THEN GuestOutcome("err", <<"Failed to deserialize command: ">> \o command)
          ELSE CASE d.v.k = "Greet" ->
                    Reply(<<"Hello from WASM guest! You said: ">> \o d.v.s)
                 [] d.v.k = "Compute" ->
                    Reply(<<"Computed result: ", ToString(Len(d.v.s) * 42)>>)
                 [] d.v.k = "Custom" ->
                    Reply(<<"Custom command '">> \o d.v.a[1].s \o <<"': ">>
                          \o d.v.a[2].s)
                 [] d.v.k = "CallHost" ->
                    The({ AfterExecute(r) :
                          r \in {HostStateExecute(slot,
                                    serialize_command("HostCommands",
                                                      Node("Echo", d.v.s, <<>>)).text,
                                    <<>>)} })
          : d \in {deserialize_command("GuestCommands", command)} })

\* The command texts a guest passes to execute: every HostCommands value as
\* serialize_command writes it, and texts that are no tagged host command.
LegacyTexts ==
    {<<"get_info">>, <<>>, JsonStr(<<"x">>),
     <<"{">> \o JsonKey("type") \o JsonStr(<<"Nope">>) \o <<"}">>,
     TaggedToJson(Node("Greet", <<"x">>, <<>>))}
CommandTexts ==
    {serialize_command("HostCommands", v).text : v \in HostCommandsVals}
    \cup LegacyTexts

\* What a guest's handle_command can come to, for any guest.
GuestOutcomes ==
    {GuestOutcome("trap", <<>>)}
    \cup {GuestOutcome("err", e) : e \in ShortStrs}
    \cup {GuestOutcome("ok", serialize_command("GuestResponse", v).text) :
            v \in GuestResponseVals}
    \cup {GuestOutcome("ok", t) : t \in LegacyTexts}

\* The guest calls execute(command, payload).
Execute(slot, command, payload) ==
    /\ arg = <<>>
    /\ arg' = <<[f |-> "execute", slot |-> slot, command |-> command,
                 payload |-> payload]>>
    /\ res' = <<HostStateExecute(slot, command, payload)>>

\* The guest calls log(level, message).
Log(slot, level, message) ==
    /\ arg = <<>>
    /\ arg' = <<[f |-> "log", slot |-> slot, level |-> level, message |-> message]>>
    /\ res' = <<HostStateLog(slot, level, message)>>

\* The host calls send_command(cmd) on a Container whose guest comes to g.
SendCommand(cmd, g) ==
    /\ arg = <<>>
    /\ arg' = <<[f |-> "send_command", cmd |-> cmd, g |-> g]>>
    /\ res' = <<send_command(cmd, g)>>

\* The host calls send_command(cmd) on the hybrid example's Container.
HybridSend(cmd, slot) ==
    /\ arg = <<>>
    /\ arg' = <<[f |-> "hybrid", cmd |-> cmd, slot |-> slot]>>
    /\ \E g \in {handle_command(serialize_command("GuestCommands", cmd).text, slot)} :
            res' = <<send_command(cmd, g)>>

\* ------------------------------------------------------- dynamic values, RON
MaxNest == 2        \* levels of nesting in a dynamic value
MaxSql == 3         \* characters of a SQL statement

\* A wasmtime Val, a Type or a ron::Value: a kind, a number, a text and parts.
Val(k, n, s, a) == [k |-> k, n |-> n, s |-> s, a |-> a]
Type(k, s, a) == Val(k, 0, s, a)
NoType == Type("none", <<>>, <<>>)
Nums == {0, 200}

\* ----------------------------------------------------------------- numbers
\* A 64-bit integer is four 16-bit limbs, the most significant first; a value
\* of a narrower type is kept zero- or sign-extended to 64 bits.
Limb == 65536
Word(n) == <<0, 0, 0, n>>
U64Max == <<Limb - 1, Limb - 1, Limb - 1, Limb - 1>>
I64Min == <<Limb \div 2, 0, 0, 0>>
IntKinds == {"u8", "u16", "u32", "u64", "s8", "s16", "s32", "s64"}
FloatKinds == {"f32", "f64"}
Signed(k) == k \in {"s8", "s16", "s32", "s64"}
Width(k) == CASE k \in {"u8", "s8"} -> 8 [] k \in {"u16", "s16"} -> 16
              [] k \in {"u32", "s32"} -> 32 [] OTHER -> 64

\* `x as T` for an i64 x and an integer type T: the low bits of x, extended
\* by the sign of T.
Cast(b, k) ==
    LET low == CASE Width(k) = 8 -> Word(b[4] % 256) [] Width(k) = 16 -> Word(b[4])
                 [] Width(k) = 32 -> <<0, 0, b[3], b[4]>> [] OTHER -> b
        neg == CASE Width(k) = 8 -> low[4] >= 128 [] Width(k) = 16 -> low[4] >= Limb \div 2
                 [] Width(k) = 32 -> low[3] >= Limb \div 2 [] OTHER -> low[1] >= Limb \div 2
    IN  IF ~Signed(k) \/ ~neg THEN low
        ELSE CASE Width(k) = 8 -> <<Limb - 1, Limb - 1, Limb - 1, Limb - 256 + low[4]>>
               [] Width(k) = 16 -> <<Limb - 1, Limb - 1, Limb - 1, low[4]>>
               [] Width(k) = 32 -> <<Limb - 1, Limb - 1, low[3], low[4]>>
               [] OTHER -> low

\* -x in two's complement
Negate(b) ==
    LET n4 == Limb - 1 - b[4] + 1
        n3 == Limb - 1 - b[3] + n4 \div Limb
        n2 == Limb - 1 - b[2] + n3 \div Limb
        n1 == Limb - 1 - b[1] + n2 \div Limb
    IN  <<n1 % Limb, n2 % Limb, n3 % Limb, n4 % Limb>>

\* x / 10 and x % 10 of an unsigned x
DivMod10(b) ==
    LET c2 == (b[1] % 10) * Limb + b[2]
        c3 == (c2 % 10) * Limb + b[3]
        c4 == (c3 % 10) * Limb + b[4]
    IN  [q |-> <<b[1] \div 10, c2 \div 10, c3 \div 10, c4 \div 10>>, r |-> c4 % 10]

\* The decimal digits of an unsigned x, none for 0
RECURSIVE Decimal(_)
Decimal(b) ==
    IF b = Word(0) THEN <<>>
    ELSE The({ Decimal(d.q) \o <<ToString(d.r)>> : d \in {DivMod10(b)} })

\* format!("{}", n) of an integer of type k
serialize_int(k, b) ==
    IF b = Word(0) THEN <<"0">>
    ELSE IF Signed(k) /\ b[1] >= Limb \div 2 THEN <<"-">> \o Decimal(Negate(b))
    ELSE Decimal(b)

\* The floats of the model and format!("{:e}", f) of them
Floats == {"inf", "-inf", "1.5"}
serialize_float(f) ==
    CASE f = "inf" -> <<"inf">>
      [] f = "-inf" -> <<"-", "inf">>
      [] OTHER -> <<"1", ".", "5", "e", "0">>

\* x.checked_mul(10) and checked_add(d): not ok beyond u64::MAX
MulAdd10(b, d) ==
    LET s4 == b[4] * 10 + d
        s3 == b[3] * 10 + s4 \div Limb
        s2 == b[2] * 10 + s3 \div Limb
        s1 == b[1] * 10 + s2 \div Limb
    IN  [ok |-> s1 < Limb, bits |-> <<s1 % Limb, s2 % Limb, s3 % Limb, s4 % Limb>>]

\* The digits ds read after the value acc
RECURSIVE ParseDigits(_, _)
ParseDigits(acc, ds) ==
    IF ds = <<>> THEN [ok |-> TRUE, bits |-> acc]
    ELSE The({ IF m.ok THEN ParseDigits(m.bits, Tail(ds)) ELSE [ok |-> FALSE, bits |-> acc]
               : m \in {MulAdd10(acc, CHOOSE d \in 0..9 : ToString(d) = Head(ds))} })

\* The characters a number is written with, and the ron::Value::Number the
\* text run reads as: a float when it has a point or an exponent or does not
\* fit the widest integer, Number::from(u64) a float above i64::MAX.
DigitChars == {ToString(d) : d \in 0..9}
NumChars == DigitChars \cup {"-", ".", "e"}
Integer(b) == Val("Number", 0, <<"Integer">>, b)
Float(f, b) == Val("Number", 0, <<"Float", f>>, b)
any_num(run) ==
    IF \E i \in 1..Len(run) : run[i] \in {".", "e"}
    THEN Float(IF run = serialize_float("1.5") THEN "1.5" ELSE "other", <<>>)
    ELSE IF Head(run) = "-"
    THEN The({ IF m.ok /\ (m.bits[1] < Limb \div 2 \/ m.bits = I64Min)
               THEN Integer(Negate(m.bits)) ELSE Float("digits", <<>>)
               : m \in {ParseDigits(Word(0), Tail(run))} })
    ELSE The({ IF ~m.ok THEN Float("digits", <<>>)
               ELSE IF m.bits[1] < Limb \div 2 THEN Integer(m.bits)
               ELSE Float("u64", m.bits)
               : m \in {ParseDigits(Word(0), run)} })

\* The longest run of number characters ts starts with
RECURSIVE NumRun(_)
NumRun(ts) ==
    IF ts = <<>> \/ Head(ts) \notin NumChars THEN <<>>
    ELSE <<Head(ts)>> \o NumRun(Tail(ts))

\* The sequences over S of at most two elements.
UpToTwo(S) == {<<>>} \cup {<<x>> : x \in S} \cup {<<x, y>> : x \in S, y \in S}

\* Values of the basic types bool, u16 and string with their descriptors.
BasicTyped ==
    {[t |-> Type("bool", <<>>, <<>>), v |-> Val("bool", b, <<>>, <<>>)] : b \in {0, 1}}
    \cup {[t |-> Type("u16", <<>>, <<>>), v |-> Val("u16", 0, <<>>, Word(n))] : n \in Nums}
    \cup {[t |-> Type("string", <<>>, <<>>), v |-> Val("string", 0, s, <<>>)] :
            s \in ShortStrs}

\* The lists, tuples, records, variants, results and options whose parts are
\* among the typed values P.
ComplexTyped(P) ==
    LET Ts == {p.t : p \in P}
        Vs(ty) == {p.v : p \in {q \in P : q.t = ty}}
    IN  UNION {{[t |-> Type("list", <<>>, <<ty>>), v |-> Val("list", 0, <<>>, items)] :
                    items \in UpToTwo(Vs(ty))} : ty \in Ts}
        \cup {[t |-> Type("tuple", <<>>, <<>>), v |-> Val("tuple", 0, <<>>, <<>>)]}
        \cup {[t |-> Type("tuple", <<>>, <<p.t>>), v |-> Val("tuple", 0, <<>>, <<p.v>>)] :
                    p \in P}
        \cup {[t |-> Type("tuple", <<>>, <<p.t, q.t>>),
               v |-> Val("tuple", 0, <<>>, <<p.v, q.v>>)] : p \in P, q \in BasicTyped}
        \cup {[t |-> Type("record", <<>>, <<>>), v |-> Val("record", 0, <<>>, <<>>)]}
        \cup {[t |-> Type("record", <<"x">>, <<p.t>>),
               v |-> Val("record", 0, <<"x">>, <<p.v>>)] : p \in P}
        \cup {[t |-> Type("record", <<"x", "y">>, <<p.t, q.t>>),
               v |-> Val("record", 0, <<"x", "y">>, <<p.v, q.v>>)] :
                    p \in BasicTyped, q \in BasicTyped}
        \cup {[t |-> Type("variant", <<"A", "B">>, <<NoType, p.t>>),
               v |-> Val("variant", 0, <<"B">>, <<p.v>>)] : p \in P}
        \cup {[t |-> Type("variant", <<"A", "B">>, <<NoType, ty>>),
               v |-> Val("variant", 0, <<"A">>, <<>>)] : ty \in Ts}
        \cup {[t |-> Type("result", <<>>, <<p.t, Type("string", <<>>, <<>>)>>),
               v |-> Val("result", 0, <<"Ok">>, <<p.v>>)] : p \in P}
        \cup {[t |-> Type("result", <<>>, <<ty, Type("string", <<>>, <<>>)>>),
               v |-> Val("result", 0, <<"Err">>, <<Val("string", 0, e, <<>>)>>)] :
                    ty \in Ts, e \in ShortStrs}
        \cup {[t |-> Type("result", <<>>, <<NoType, NoType>>),
               v |-> Val("result", 0, <<c>>, <<>>)] : c \in {"Ok", "Err"}}
        \cup {[t |-> Type("option", <<>>, <<p.t>>),
               v |-> Val("option", 0, <<>>, <<p.v>>)] : p \in P}
        \cup {[t |-> Type("option", <<>>, <<ty>>), v |-> Val("option", 0, <<>>, <<>>)] :
                    ty \in Ts}

RECURSIVE TypedVals(_)
TypedVals(d) ==
    IF d <= 1 THEN BasicTyped
    ELSE The({P \cup ComplexTyped(P) : P \in {TypedVals(d - 1)}})

\* The integers of every type at the ends of the ranges, and the floats.
NumTyped ==
    {[t |-> Type(k, <<>>, <<>>), v |-> Val(k, 0, <<>>, Cast(b, k))] :
        k \in IntKinds,
        b \in {Word(0), Word(200), Word(255), Word(256), Word(Limb - 1), U64Max, I64Min,
               <<Limb \div 2 - 1, Limb - 1, Limb - 1, Limb - 1>>}}
    \cup {[t |-> Type(k, <<>>, <<>>), v |-> Val(k, 0, <<f>>, <<>>)] :
            k \in FloatKinds, f \in Floats}

RonInputs == TypedVals(MaxNest) \cup NumTyped

\* A text and a descriptor that need not belong together: the numbers against
\* the integer types, and the lists and tuples of basic values against the
\* list and tuple types.
DecodeInputs ==
    LET Flat == {p \in ComplexTyped(BasicTyped) : p.t.k \in {"list", "tuple"}}
        Ints == {p \in NumTyped : p.t.k \in IntKinds}
    IN  {[t |-> q.t, v |-> p.v] : p \in Flat, q \in Flat}
        \cup {[t |-> q.t, v |-> p.v] : p \in Ints, q \in Ints}

\* Mutant of Join: the separator is a comma without the space.
RECURSIVE JoinTight(_)
JoinTight(texts) ==
    IF texts = <<>> THEN <<>>
    ELSE IF Len(texts) = 1 THEN texts[1]
    ELSE texts[1] \o <<",">> \o JoinTight(Tail(texts))

\* items.join(", ")
RECURSIVE Join(_)
Join(texts) ==
    IF texts = <<>> THEN <<>>
    ELSE IF Len(texts) = 1 THEN texts[1]
    ELSE texts[1] \o <<", ">> \o Join(Tail(texts))

\* val_to_ron with the serializers of mod basic and mod complex: format!("{}")
\* of a bool or an integer, format!("{:?}") of a string, [..], (..), {k: v},
\* Case(v) or Case, Ok(v) / Err(e) / Ok(()) / Err(()), Some(v) / None.
RECURSIVE val_to_ron(_)
val_to_ron(v) ==
    CASE v.k = "bool" -> <<IF v.n = 1 THEN "true" ELSE "false">>
      [] v.k \in IntKinds -> serialize_int(v.k, v.a)
      [] v.k \in FloatKinds -> serialize_float(v.s[1])
      [] v.k = "string" -> <<QUOTE>> \o JsonEscape(v.s) \o <<QUOTE>>
      [] v.k = "list" ->
            <<"[">> \o Join([i \in 1..Len(v.a) |-> val_to_ron(v.a[i])]) \o <<"]">>
      [] v.k = "tuple" ->
            <<"(">> \o Join([i \in 1..Len(v.a) |-> val_to_ron(v.a[i])]) \o <<")">>
      [] v.k = "record" ->
            <<"{">> \o Join([i \in 1..Len(v.a) |-> <<v.s[i], ": ">> \o val_to_ron(v.a[i])])
                    \o <<"}">>
      [] v.k = "variant" ->
            IF v.a = <<>> THEN <<v.s[1]>>
            ELSE <<v.s[1], "(">> \o val_to_ron(v.a[1]) \o <<")">>
      [] v.k = "result" ->
            IF v.a = <<>> THEN <<v.s[1], "(", "(", ")", ")">>
            ELSE <<v.s[1], "(">> \o val_to_ron(v.a[1]) \o <<")">>
      [] v.k = "option" ->
            IF v.a = <<>> THEN <<"None">>
            ELSE <<"Some", "(">> \o val_to_ron(v.a[1]) \o <<")">>

Unit == Val("Unit", 0, <<>>, <<>>)
RonFail == [ok |-> FALSE, v |-> Unit, rest |-> <<>>]
ItemsFail == [ok |-> FALSE, v |-> <<>>, rest |-> <<>>]
Closers == {"]", ")", "}", ", ", ": ", BSLASH}

\* ron::from_str::<ron::Value>, the self-describing reader: true / false,
\* Some(..) / None, (), a number, a string, [..] and (..) as Seq, {..} as Map,
\* and an identifier as a unit value or, followed by "(", as the Seq of a
\* tuple struct.
RECURSIVE ReadRon(_)
RECURSIVE ReadItems(_, _)
RECURSIVE ReadPairs(_)
ReadRon(ts) ==
    IF ts = <<>> THEN RonFail
    ELSE The({
        CASE h \in {"true", "false"} ->
                [ok |-> TRUE, rest |-> Tail(ts),
                 v |-> Val("Bool", IF h = "true" THEN 1 ELSE 0, <<>>, <<>>)]
          [] h = "None" ->
                [ok |-> TRUE, rest |-> Tail(ts), v |-> Val("Option", 0, <<>>, <<>>)]
          [] h = "Some" ->
                IF Len(ts) >= 2 /\ ts[2] = "("
                THEN The({ IF r.ok /\ r.rest # <<>> /\ Head(r.rest) = ")"
                           THEN [ok |-> TRUE, rest |-> Tail(r.rest),
                                 v |-> Val("Option", 0, <<>>, <<r.v>>)]
                           ELSE RonFail
                           : r \in {ReadRon(SubSeq(ts, 3, Len(ts)))} })
                ELSE RonFail
          [] h = "inf" -> [ok |-> TRUE, rest |-> Tail(ts), v |-> Float("inf", <<>>)]
          [] h = "-" /\ Len(ts) >= 2 /\ ts[2] = "inf" ->
                [ok |-> TRUE, rest |-> SubSeq(ts, 3, Len(ts)), v |-> Float("-inf", <<>>)]
          [] h \in NumChars /\ ~(h = "-" /\ Len(ts) >= 2 /\ ts[2] = "inf") ->
                The({ IF run = <<"-">> THEN RonFail
                      ELSE [ok |-> TRUE, rest |-> SubSeq(ts, Len(run) + 1, Len(ts)),
                            v |-> any_num(run)]
                      : run \in {NumRun(ts)} })
          [] h = QUOTE ->
                The({ [ok |-> r.ok, rest |-> r.rest, v |-> Val("String", 0, r.s, <<>>)]
                      : r \in {ReadStr(Tail(ts))} })
          [] h = "[" ->
                The({ [ok |-> r.ok, rest |-> r.rest, v |-> Val("Seq", 0, <<>>, r.v)]
                      : r \in {ReadItems(Tail(ts), "]")} })
          [] h = "(" ->
                IF Len(ts) >= 2 /\ ts[2] = ")"
                THEN [ok |-> TRUE, rest |-> SubSeq(ts, 3, Len(ts)), v |-> Unit]
                ELSE The({ [ok |-> r.ok, rest |-> r.rest, v |-> Val("Seq", 0, <<>>, r.v)]
                           : r \in {ReadItems(Tail(ts), ")")} })
          [] h = "{" ->
                The({ [ok |-> r.ok, rest |-> r.rest, v |-> Val("Map", 0, <<>>, r.v)]
                      : r \in {ReadPairs(Tail(ts))} })
          [] h \in Closers -> RonFail
          [] OTHER ->
                IF Len(ts) >= 2 /\ ts[2] = "("
                THEN The({ [ok |-> r.ok, rest |-> r.rest, v |-> Val("Seq", 0, <<>>, r.v)]
                           : r \in {ReadItems(SubSeq(ts, 3, Len(ts)), ")")} })
                ELSE [ok |-> TRUE, rest |-> Tail(ts), v |-> Unit]
        : h \in {Head(ts)} })

ReadItems(ts, close) ==
    IF ts = <<>> THEN ItemsFail
    ELSE IF Head(ts) = close THEN [ok |-> TRUE, v |-> <<>>, rest |-> Tail(ts)]
    ELSE The({
        IF ~e.ok \/ e.rest = <<>> THEN ItemsFail
        ELSE IF Head(e.rest) = close
        THEN [ok |-> TRUE, v |-> <<e.v>>, rest |-> Tail(e.rest)]
        ELSE IF Head(e.rest) = ", "
        THEN The({ [ok |-> m.ok, v |-> <<e.v>> \o m.v, rest |-> m.rest]
                   : m \in {ReadItems(Tail(e.rest), close)} })
        ELSE ItemsFail
        : e \in {ReadRon(ts)} })

ReadPairs(ts) ==
    IF ts = <<>> THEN ItemsFail
    ELSE IF Head(ts) = "}" THEN [ok |-> TRUE, v |-> <<>>, rest |-> Tail(ts)]
    ELSE The({
        IF ~k.ok \/ k.rest = <<>> \/ Head(k.rest) # ": " THEN ItemsFail
        ELSE The({
            IF ~e.ok \/ e.rest = <<>> THEN ItemsFail
            ELSE IF Head(e.rest) = "}"
            THEN [ok |-> TRUE, v |-> <<Val("pair", 0, <<>>, <<k.v, e.v>>)>>,
                  rest |-> Tail(e.rest)]
            ELSE IF Head(e.rest) = ", "
            THEN The({ [ok |-> m.ok, rest |-> m.rest,
                        v |-> <<Val("pair", 0, <<>>, <<k.v, e.v>>)>> \o m.v]
                       : m \in {ReadPairs(Tail(e.rest))} })
            ELSE ItemsFail
            : e \in {ReadRon(Tail(k.rest))} })
        : k \in {ReadRon(ts)} })

ValFail == [ok |-> FALSE, v |-> Unit]

\* The pairs of Map r under the key RonValue::String(name).
Find(r, name) ==
    {j \in 1..Len(r.a) : r.a[j].a[1] = Val("String", 0, <<name>>, <<>>)}
Found(r, name) == r.a[CHOOSE j \in Find(r, name) : \A i \in Find(r, name) : j <= i].a[2]

\* vals.collect::<Result<Vec<_>>>()
Collect(k, s, rs) ==
    IF \A i \in DOMAIN rs : rs[i].ok
    THEN [ok |-> TRUE, v |-> Val(k, 0, s, [i \in DOMAIN rs |-> rs[i].v])]
    ELSE ValFail

\* Mutant of TupleArity: a text with fewer elements than the descriptor passes.
TupleArityAtMost(r, t) == Len(r.a) <= Len(t.a)

\* deserialize_tuple: bail!("Tuple length mismatch") unless the lengths agree
TupleArity(r, t) == Len(r.a) = Len(t.a)

\* ron_value_to_val with the deserializers of mod basic and mod complex
RECURSIVE ron_value_to_val(_, _)
ron_value_to_val(r, t) ==
    CASE t.k = "bool" ->
            IF r.k = "Bool" THEN [ok |-> TRUE, v |-> Val("bool", r.n, <<>>, <<>>)]
            ELSE ValFail
      [] t.k \in IntKinds ->
            IF r.k = "Number" /\ r.s[1] = "Integer"
            THEN [ok |-> TRUE, v |-> Val(t.k, 0, <<>>, Cast(r.a, t.k))]
            ELSE ValFail
      [] t.k \in FloatKinds ->
            IF r.k = "Number" /\ r.s[1] = "Float"
            THEN [ok |-> TRUE, v |-> Val(t.k, 0, <<r.s[2]>>, r.a)]
            ELSE ValFail
      [] t.k = "string" ->
            IF r.k = "String" THEN [ok |-> TRUE, v |-> Val("string", 0, r.s, <<>>)]
            ELSE ValFail
      [] t.k = "list" ->
            IF r.k = "Seq"
            THEN Collect("list", <<>>,
                         [i \in 1..Len(r.a) |-> ron_value_to_val(r.a[i], t.a[1])])
            ELSE ValFail
      [] t.k = "tuple" ->
            IF r.k = "Seq" /\ TupleArity(r, t)
            THEN Collect("tuple", <<>>,
                         [i \in 1..Len(r.a) |-> ron_value_to_val(r.a[i], t.a[i])])
            ELSE ValFail
      [] t.k = "record" ->
            IF r.k = "Map" /\ \A i \in 1..Len(t.s) : Find(r, t.s[i]) # {}
            THEN Collect("record", t.s,
                         [i \in 1..Len(t.s) |-> ron_value_to_val(Found(r, t.s[i]), t.a[i])])
            ELSE ValFail
      [] t.k = "variant" ->
            IF r.k = "Map" /\ \E i \in 1..Len(t.s) : Find(r, t.s[i]) # {}
            THEN LET c == CHOOSE i \in 1..Len(t.s) :
                            /\ Find(r, t.s[i]) # {}
                            /\ \A j \in 1..(i - 1) : Find(r, t.s[j]) = {}
                 IN  IF t.a[c] = NoType
                     THEN [ok |-> TRUE, v |-> Val("variant", 0, <<t.s[c]>>, <<>>)]
                     ELSE Collect("variant", <<t.s[c]>>,
                                  <<ron_value_to_val(Found(r, t.s[c]), t.a[c])>>)
            ELSE ValFail
      [] t.k = "result" ->
            IF r.k = "Map" /\ \E c \in {"Ok", "Err"} : Find(r, c) # {}
            THEN LET c == IF Find(r, "Ok") # {} THEN "Ok" ELSE "Err"
                     ty == IF c = "Ok" THEN t.a[1] ELSE t.a[2]
                 IN  IF ty = NoType
                     THEN [ok |-> TRUE, v |-> Val("result", 0, <<c>>, <<>>)]
                     ELSE Collect("result", <<c>>, <<ron_value_to_val(Found(r, c), ty)>>)
            ELSE ValFail
      [] t.k = "option" ->
            IF r.k = "Option"
            THEN IF r.a = <<>> THEN [ok |-> TRUE, v |-> Val("option", 0, <<>>, <<>>)]
                 ELSE Collect("option", <<>>, <<ron_value_to_val(r.a[1], t.a[1])>>)
            ELSE ValFail
      [] OTHER -> ValFail

\* ron_to_val: the text parsed to a ron::Value, then converted by the type.
ron_to_val(ron, target_type) ==
    The({ IF r.ok /\ r.rest = <<>> THEN ron_value_to_val(r.v, target_type) ELSE ValFail
          : r \in {ReadRon(ron)} })

\* val_to_ron(v), then ron_to_val of the text with v's type.
RonRoundTrip(t, v) ==
    /\ arg = <<>>
    /\ \E text \in {val_to_ron(v)} :
            /\ arg' = <<[f |-> "ron", t |-> t, v |-> v, text |-> text]>>
            /\ res' = <<ron_to_val(text, t)>>

\* ------------------------------------------------------ HostImportRegistry
ImportNames == {"add", "test-func"}
ImportHandlers == {"add", "unit"}
U32(n) == Val("u32", n, <<>>, <<>>)
Signatures == {<<>>, <<Type("u32", <<>>, <<>>)>>,
               <<Type("u32", <<>>, <<>>), Type("u32", <<>>, <<>>)>>}
ImportArgs == {<<U32(10), U32(32)>>, <<U32(0), U32(200)>>,
               <<U32(10), Val("string", 0, <<"x">>, <<>>)>>,
               <<Val("bool", 1, <<>>, <<>>), U32(32)>>}

\* The handlers the tests register: |_args| Ok(vec![]) and the u32 addition,
\* which answers "Type error" to an argument that is not a U32.
HandlerCall(h, args) ==
    IF h = "unit" THEN [ok |-> TRUE, v |-> <<>>, err |-> <<>>]
    ELSE IF args[1].k # "u32" \/ args[2].k # "u32"
         THEN [ok |-> FALSE, v |-> <<>>, err |-> <<"Type error">>]
         ELSE [ok |-> TRUE, v |-> <<U32(args[1].n + args[2].n)>>, err |-> <<>>]

HostImport(name, params, results, h) ==
    [name |-> name, params |-> params, results |-> results, handler |-> h]

\* Mutant of register: a name already in the map keeps its import.
register_if_absent(name, params, results, h) ==
    /\ imports' = [imports EXCEPT ![name] =
                        IF @ = <<>> THEN <<HostImport(name, params, results, h)>> ELSE @]
    /\ registered' = [registered EXCEPT ![name] = <<HostImport(name, params, results, h)>>]
    /\ arg' = <<[f |-> "register", name |-> name]>>
    /\ res' = <<>>
    /\ invoked' = <<>>

\* register: self.imports.insert(name, import)
register(name, params, results, h) ==
    /\ imports' = [imports EXCEPT ![name] = <<HostImport(name, params, results, h)>>]
    /\ registered' = [registered EXCEPT ![name] = <<HostImport(name, params, results, h)>>]
    /\ arg' = <<[f |-> "register", name |-> name]>>
    /\ res' = <<>>
    /\ invoked' = <<>>

\* Mutant of call: a name that is not registered gives an empty result.
call_or_default(name, args) ==
    /\ arg' = <<[f |-> "call", name |-> name, args |-> args]>>
    /\ IF imports[name] = <<>>
       THEN /\ res' = <<[ok |-> TRUE, v |-> <<>>, err |-> <<>>]>>
            /\ invoked' = <<>>
       ELSE /\ res' = <<HandlerCall(imports[name][1].handler, args)>>
            /\ invoked' = <<[h |-> imports[name][1].handler, args |-> args]>>
    /\ UNCHANGED <<imports, registered>>

\* call: imports.get(name).ok_or_else(..)?, then (import.handler)(args)
call(name, args) ==
    /\ arg' = <<[f |-> "call", name |-> name, args |-> args]>>
    /\ IF imports[name] = <<>>
       THEN /\ res' = <<[ok |-> FALSE, v |-> <<>>,
                         err |-> <<"Host import not found: ", name>>]>>
            /\ invoked' = <<>>
       ELSE /\ res' = <<HandlerCall(imports[name][1].handler, args)>>
            /\ invoked' = <<[h |-> imports[name][1].handler, args |-> args]>>
    /\ UNCHANGED <<imports, registered>>

\* list_imports: the keys of the map, in the order the HashMap iterates them
list_imports ==
    /\ arg' = <<[f |-> "list_imports"]>>
    /\ \E keys \in UpToTwo(ImportNames) :
            /\ \A n \in ImportNames :
                    Cardinality({i \in 1..Len(keys) : keys[i] = n}) =
                        IF imports[n] = <<>> THEN 0 ELSE 1
            /\ res' = <<keys>>
    /\ invoked' = <<>>
    /\ UNCHANGED <<imports, registered>>

\* get_signature: imports.get(name).map(|i| (i.params.clone(), i.results.clone()))
get_signature(name) ==
    /\ arg' = <<[f |-> "get_signature", name |-> name]>>
    /\ res' = <<IF imports[name] = <<>> THEN <<>>
                ELSE <<[params |-> imports[name][1].params,
                        results |-> imports[name][1].results]>>>>
    /\ invoked' = <<>>
    /\ UNCHANGED <<imports, registered>>

\* ------------------------------------------------- storage proxy: execute
\* A statement is a sequence of characters; `?` is the placeholder mark.
MARK == "?"
SqlChars == {MARK, "x", ","}
SqlTexts == UNION {[1..k -> SqlChars] : k \in 0..MaxSql}

\* sea_orm::Value: a string or a big integer.
SqlValues ==
    {[k |-> "String", s |-> t, n |-> 0] : t \in {<<>>, <<"a">>, <<MARK>>, <<"a", MARK>>}}
    \cup {[k |-> "BigInt", s |-> <<>>, n |-> n] : n \in {0, 42}}

\* Statement.values: None, or Some of the values bound to the statement.
SqlValueLists == {<<>>} \cup {<<vs>> : vs \in UpToTwo(SqlValues)}

\* v.to_string(): the value as a SQL literal, a string between single quotes
\* and an integer in decimal.
ValueToString(v) ==
    IF v.k = "String" THEN <<"'">> \o v.s \o <<"'">> ELSE <<ToString(v.n)>>

\* new_sql.matches('?').count()
MarkCount(sql) == Cardinality({i \in 1..Len(sql) : sql[i] = MARK})

\* new_sql.replacen('?', to, 1): the first mark of the string is replaced.
Replacen(sql, to) ==
    IF MarkCount(sql) = 0 THEN sql
    ELSE The({ SubSeq(sql, 1, i - 1) \o to \o SubSeq(sql, i + 1, Len(sql))
               : i \in {j \in 1..Len(sql) :
                          sql[j] = MARK /\ \A h \in 1..(j - 1) : sql[h] # MARK} })

\* The loop of ProxyDb::execute from value i on: it stops at the value whose
\* index reaches the number of marks of the original statement.
RECURSIVE ReplaceMarks(_, _, _, _)
ReplaceMarks(new_sql, values, i, mark_count) ==
    IF i > Len(values) \/ i - 1 >= mark_count THEN new_sql
    ELSE ReplaceMarks(Replacen(new_sql, ValueToString(values[i])), values, i + 1,
                      mark_count)

\* ProxyDb::execute up to the request it prints: RequestMsg::Execute(sql).
ProxyDbExecute(sql, values) ==
    /\ arg = <<>>
    /\ arg' = <<[f |-> "db_execute", sql |-> sql, values |-> values]>>
    /\ res' = <<IF values = <<>> THEN sql
                ELSE ReplaceMarks(sql, values[1], 1, MarkCount(sql))>>

\* ron_to_val of the text of a value v with a descriptor t given apart from it.
RonDecode(t, v) ==
    /\ arg = <<>>
    /\ \E text \in {val_to_ron(v)} :
            /\ arg' = <<[f |-> "decode", t |-> t, v |-> v, text |-> text]>>
            /\ res' = <<ron_to_val(text, t)>>

\* ------------------------------------ BucketStore: default multipart upload
MaxUploads == 2     \* multipart uploads created
MaxParts == 2       \* parts appended to one upload

\* uuid::Uuid::new_v4().to_string(): an id no earlier call has returned
UploadId(i) == "u" \o ToString(i)
UploadIds == {UploadId(i) : i \in 1..MaxUploads}

\* format!("__multipart_{}", id) and format!("__multipart_{}_{}", id, i)
CounterKey(id) == <<"__multipart_", id>>
PartKey(id, i) == <<"__multipart_", id, "_", ToString(i)>>

UserKeys == {<<"k">>}
BucketKeys ==
    UserKeys \cup {<<id>> : id \in UploadIds} \cup {CounterKey(id) : id \in UploadIds}
    \cup {PartKey(id, i) : id \in UploadIds, i \in 0..MaxParts}
BucketData == {<<"x">>, <<"y">>}

\* postcard::to_allocvec(&count) and postcard::from_bytes(&count) of a usize
\* below 128: one byte, the number.
ToAllocvec(n) == <<n>>
FromBytes(b) == b[1]

\* The store behind the trait's get / set / delete.
StoreSet(s, key, value) == [s EXCEPT ![key] = <<value>>]
StoreDelete(s, key) == [s EXCEPT ![key] = <<>>]

\* for i in 0..count { parts.push(self.get(key_i).await?.unwrap_or_default()) };
\* parts.concat()
RECURSIVE ConcatParts(_, _, _, _)
ConcatParts(s, id, i, count) ==
    IF i >= count THEN <<>>
    ELSE (IF s[PartKey(id, i)] = <<>> THEN <<>> ELSE s[PartKey(id, i)][1])
         \o ConcatParts(s, id, i + 1, count)

\* for i in 0..count { self.delete(key_i).await? }
DeleteParts(s, id, count) ==
    [key \in DOMAIN s |->
        IF \E i \in 0..(count - 1) : key = PartKey(id, i) THEN <<>> ELSE s[key]]

BucketResult(f, ok, id, key, size) ==
    [f |-> f, ok |-> ok, id |-> id, key |-> key, size |-> size]

\* set(key, value) by the owner of the store
BucketStoreSet(key, value) ==
    /\ store' = StoreSet(store, key, value)
    /\ bres' = BucketResult("set", TRUE, "", key, 0)
    /\ UNCHANGED <<nextUpload, appended>>

create_multipart_upload ==
    /\ nextUpload < MaxUploads
    /\ nextUpload' = nextUpload + 1
    /\ LET id == UploadId(nextUpload + 1) IN
        /\ store' = StoreSet(store, CounterKey(id), ToAllocvec(0))
        /\ appended' = [appended EXCEPT ![id] = <<>>]
        /\ bres' = BucketResult("create", TRUE, id, <<>>, 0)

append_multipart_upload(upload_id, data) ==
    /\ Len(appended[upload_id]) < MaxParts
    /\ IF store[CounterKey(upload_id)] = <<>>
       THEN /\ bres' = BucketResult("append", FALSE, upload_id, <<>>, 0)
            /\ UNCHANGED <<store, appended>>
       ELSE LET count == FromBytes(store[CounterKey(upload_id)][1]) + 1 IN
            /\ store' = StoreSet(StoreSet(store, PartKey(upload_id, count), data),
                                 CounterKey(upload_id), ToAllocvec(count))
            /\ appended' = [appended EXCEPT ![upload_id] = Append(@, data)]
            /\ bres' = BucketResult("append", TRUE, upload_id, <<>>, 0)
    /\ UNCHANGED nextUpload

complete_multipart_upload(upload_id, final_data_key) ==
    /\ IF store[CounterKey(upload_id)] = <<>>
       THEN /\ bres' = BucketResult("complete", FALSE, upload_id, <<>>, 0)
            /\ UNCHANGED store
       ELSE LET count == FromBytes(store[CounterKey(upload_id)][1])
                final_data == ConcatParts(store, upload_id, 0, count)
                key == IF final_data_key = <<>> THEN <<upload_id>>
                       ELSE final_data_key[1]
            IN  /\ store' = StoreDelete(
                                DeleteParts(StoreSet(store, key, final_data),
                                            upload_id, count),
                                CounterKey(upload_id))
                /\ bres' = BucketResult("complete", TRUE, upload_id, key,
                                        Len(final_data))
    /\ UNCHANGED <<nextUpload, appended>>

abort_multipart_upload(upload_id) ==
    /\ IF store[CounterKey(upload_id)] = <<>>
       THEN /\ bres' = BucketResult("abort", FALSE, upload_id, <<>>, 0)
            /\ UNCHANGED store
       ELSE LET count == FromBytes(store[CounterKey(upload_id)][1]) IN
            /\ store' = StoreDelete(DeleteParts(store, upload_id, count),
                                    CounterKey(upload_id))
            /\ bres' = BucketResult("abort", TRUE, upload_id, <<>>, 0)
    /\ UNCHANGED <<nextUpload, appended>>

\* ------------------------------------------------- the native bucket driver
MaxNativeUploads == 1   \* multipart uploads created
MaxNativeParts == 2     \* parts appended to one upload

\* File names as characters; the second is not a valid key.
NativeKeys == {<<"k">>, <<"k", "/">>}
NativeId(i) == <<"u", ToString(i)>>
NativeIds == {NativeId(i) : i \in 1..MaxNativeUploads}
NativeData == {<<"x", "y">>, <<"y", "x">>}
NativeParts == {<<"x">>, <<"y">>}
\* range.start() and range.end() of a RangeInclusive<usize>
Ranges == {<<0, 0>>, <<0, 1>>, <<1, 1>>}

\* check_key: every character is alphanumeric or one of . _ -
KeyChars == {"k", "u", "-", "_", "."} \cup {ToString(i) : i \in 0..9}
check_key(key) == \A i \in 1..Len(key) : key[i] \in KeyChars

NativeResult(f, ok, key, range, data) ==
    [f |-> f, ok |-> ok, key |-> key, range |-> range, data |-> data]

\* std::fs::write(path/key, value): the file is made or replaced.
FsWrite(fs, key, value) == [fs EXCEPT ![key] = <<value>>]

\* ProxyBucket::set
ProxyBucketSet(key, value) ==
    /\ IF check_key(key)
       THEN /\ files' = FsWrite(files, key, value)
            /\ nres' = NativeResult("set", TRUE, key, <<>>, <<>>)
       ELSE /\ nres' = NativeResult("set", FALSE, key, <<>>, <<>>)
            /\ UNCHANGED files
    /\ UNCHANGED <<cache, multipart_cache, nextNative>>

\* file.seek(SeekFrom::Start(start)); vec![0; end - start]; file.read_exact:
\* <<>> when the file ends before the buffer is full, else <<the bytes>>.
ReadExact(file, start, end) ==
    IF start + (end - start) > Len(file) /\ end - start > 0
    THEN <<>>
    ELSE <<SubSeq(file, start + 1, end)>>

\* ProxyBucket::get
ProxyBucketGet(key, range) ==
    /\ IF ~check_key(key)
       THEN /\ nres' = NativeResult("get", FALSE, key, range, <<>>)
            /\ UNCHANGED cache
       ELSE IF range = <<>>
       THEN /\ nres' = NativeResult("get", files[key] # <<>>, key, range, files[key])
            /\ UNCHANGED cache
       ELSE IF cache[<<key, range[1]>>] # <<>>
       THEN /\ nres' = NativeResult("get", TRUE, key, range, cache[<<key, range[1]>>])
            /\ UNCHANGED cache
       ELSE IF files[key] = <<>>
       THEN /\ nres' = NativeResult("get", FALSE, key, range, <<>>)
            /\ UNCHANGED cache
       ELSE LET data == ReadExact(files[key][1], range[1][1], range[1][2]) IN
            IF data = <<>>
            THEN /\ nres' = NativeResult("get", FALSE, key, range, <<>>)
                 /\ UNCHANGED cache
            ELSE /\ cache' = [cache EXCEPT ![<<key, range[1]>>] = data]
                 /\ nres' = NativeResult("get", TRUE, key, range, data)
    /\ UNCHANGED <<files, multipart_cache, nextNative>>

\* ProxyBucket::delete
ProxyBucketDelete(key) ==
    /\ IF check_key(key)
       THEN /\ cache' = [e \in DOMAIN cache |-> IF e[1] = key THEN <<>> ELSE cache[e]]
            /\ files' = [files EXCEPT ![key] = <<>>]
            /\ nres' = NativeResult("delete", TRUE, key, <<>>, <<>>)
       ELSE /\ nres' = NativeResult("delete", FALSE, key, <<>>, <<>>)
            /\ UNCHANGED <<files, cache>>
    /\ UNCHANGED <<multipart_cache, nextNative>>

\* ProxyBucket::create_multipart_upload
ProxyBucketCreate ==
    /\ nextNative < MaxNativeUploads
    /\ nextNative' = nextNative + 1
    /\ multipart_cache' =
            [multipart_cache EXCEPT ![NativeId(nextNative + 1)] = <<<<>>>>]
    /\ nres' = NativeResult("create", TRUE, NativeId(nextNative + 1), <<>>, <<>>)
    /\ UNCHANGED <<files, cache>>

\* ProxyBucket::append_multipart_upload
ProxyBucketAppend(upload_id, data) ==
    /\ IF multipart_cache[upload_id] # <<>>
       THEN /\ Len(multipart_cache[upload_id][1]) < MaxNativeParts
            /\ multipart_cache' =
                    [multipart_cache EXCEPT ![upload_id] = <<Append(@[1], data)>>]
            /\ nres' = NativeResult("append", TRUE, upload_id, <<>>, <<>>)
       ELSE /\ nres' = NativeResult("append", FALSE, upload_id, <<>>, <<>>)
            /\ UNCHANGED multipart_cache
    /\ UNCHANGED <<files, cache, nextNative>>

\* upload.concat()
RECURSIVE Concat(_)
Concat(upload) == IF upload = <<>> THEN <<>> ELSE Head(upload) \o Concat(Tail(upload))

\* ProxyBucket::complete_multipart_upload
ProxyBucketComplete(upload_id, final_data_key) ==
    /\ IF multipart_cache[upload_id] # <<>>
       THEN LET data == Concat(multipart_cache[upload_id][1])
                key == IF final_data_key = <<>> THEN upload_id ELSE final_data_key[1]
            IN  /\ multipart_cache' = [multipart_cache EXCEPT ![upload_id] = <<>>]
                /\ IF check_key(key)
                   THEN /\ files' = FsWrite(files, key, data)
                        /\ nres' = NativeResult("complete", TRUE, key, <<>>, <<data>>)
                   ELSE /\ nres' = NativeResult("complete", FALSE, key, <<>>, <<>>)
                        /\ UNCHANGED files
       ELSE /\ nres' = NativeResult("complete", FALSE, upload_id, <<>>, <<>>)
            /\ UNCHANGED <<files, multipart_cache>>
    /\ UNCHANGED <<cache, nextNative>>

\* ProxyBucket::abort_multipart_upload
ProxyBucketAbort(upload_id) ==
    /\ multipart_cache' = [multipart_cache EXCEPT ![upload_id] = <<>>]
    /\ nres' = NativeResult("abort", multipart_cache[upload_id] # <<>>, upload_id,
                            <<>>, <<>>)
    /\ UNCHANGED <<files, cache, nextNative>>

\* ---------------------------------------------------- WitCommandDispatcher
\* Command types (the C of WitCommand), the names command_name() returns, and
\* the handlers registered: one answers, one refuses.
WitTypes == {"C1", "C2"}
WitNames == {"ping", "get"}
WitHandlers == {"answer", "refuse"}
WitCommands == [ty : WitTypes, name : WitNames]

\* handler.execute(command)
HandlerExecute(h, command) ==
    IF h = "answer"
    THEN [ok |-> TRUE, v |-> <<"answer", command.ty, command.name>>]
    ELSE [ok |-> FALSE, v |-> <<"refused">>]

\* The TypeId of Box<dyn WitCommandHandler<C>> is that of the type for C.
Downcast(entry, ty) == IF entry.ty = ty THEN <<entry.h>> ELSE <<>>

\* Mutant of WitRegister: a name already in the map keeps its handler.
WitRegisterKeepsFirst(command_name, ty, h) ==
    /\ handlers' = [handlers EXCEPT
                        ![command_name] = IF @ = <<>> THEN <<[ty |-> ty, h |-> h]>>
                                          ELSE @]
    /\ lastReg' = [lastReg EXCEPT
                        ![command_name] = <<[ty |-> ty, h |-> h,
                                             replaced |-> @ # <<>>]>>]
    /\ executed' = <<>>
    /\ wres' = <<>>

\* WitCommandDispatcher::register
WitRegister(command_name, ty, h) ==
    /\ handlers' = [handlers EXCEPT ![command_name] = <<[ty |-> ty, h |-> h]>>]
    /\ lastReg' = [lastReg EXCEPT
                        ![command_name] = <<[ty |-> ty, h |-> h,
                                             replaced |-> @ # <<>>]>>]
    /\ executed' = <<>>
    /\ wres' = <<>>

\* WitCommandDispatcher::dispatch
dispatch(command) ==
    /\ LET name == command.name IN
       IF handlers[name] = <<>>
       THEN /\ wres' = <<[cmd |-> command, ok |-> FALSE,
                          v |-> <<"No handler registered for command: ", name>>]>>
            /\ executed' = <<>>
       ELSE IF Downcast(handlers[name][1], command.ty) = <<>>
       THEN /\ wres' = <<[cmd |-> command, ok |-> FALSE,
                          v |-> <<"Handler type mismatch for command: ", name>>]>>
            /\ executed' = <<>>
       ELSE LET boxed == Downcast(handlers[name][1], command.ty)[1]
                out == HandlerExecute(boxed, command)
            IN  /\ wres' = <<[cmd |-> command, ok |-> out.ok, v |-> out.v]>>
                /\ executed' = <<boxed>>
    /\ UNCHANGED <<handlers, lastReg>>

\* ---------------------------------------------------------- specifications
InitOut ==
    /\ guest = "running"
    /\ txOut = <<>>
    /\ hostGot = <<>>
    /\ written = <<>>
    /\ lastWrite = <<>>
    /\ nWrites = 0

InitIn ==
    /\ txIn = <<>>
    /\ hostSent = <<>>
    /\ fwd = <<>>
    /\ tasks = <<>>
    /\ rpc = "idle"
    /\ readLog = <<>>

InitProxy ==
    /\ dpc = "idle"
    /\ dreq = <<>>
    /\ nReq = 0
    /\ got = <<>>
    /\ hpc = "recv"
    /\ hcur = <<>>

\* A Registry as Registry::new() leaves it, or one on which
\* register_image("a", b1) and run_container("a", "a"), and then possibly
\* run_container("a", "b"), have returned Ok, with or without an
\* execute-handler installed on the first container since.
InitReg ==
    /\ \/ /\ images = [n \in Names |-> <<>>]
          /\ containers = [n \in Names |-> <<>>]
          /\ nextCid = 0
          /\ handler = [c \in Cids |-> FALSE]
          /\ present = [n \in Names |-> FALSE]
       \/ /\ images = [n \in Names |-> IF n = "a" THEN <<"b1">> ELSE <<>>]
          /\ containers = [n \in Names |-> IF n = "a" THEN <<1>> ELSE <<>>]
          /\ nextCid = 1
          /\ \E h \in BOOLEAN : handler = [c \in Cids |-> h /\ c = 1]
          /\ present = [n \in Names |-> n = "a"]
       \/ /\ images = [n \in Names |-> IF n = "a" THEN <<"b1">> ELSE <<>>]
          /\ containers = [n \in Names |-> IF n = "a" THEN <<1>> ELSE <<2>>]
          /\ nextCid = 2
          /\ \E h \in BOOLEAN : handler = [c \in Cids |-> h /\ c = 1]
          /\ present = [n \in Names |-> n = "a"]
    /\ imagesLock = 0
    /\ containersLock = 0
    /\ poisoned = FALSE
    /\ storeLock = 0
    /\ owned = [t \in Threads |-> {}]
    /\ pc = [t \in Threads |-> "idle"]
    /\ op = [t \in Threads |-> NoOp]
    /\ frames = [t \in Threads |-> <<>>]
    /\ nOps = 0
    /\ ret = [t \in Threads |-> NoRet]
    /\ trapped = {}
    /\ called = {}

\* No codec call has been made.
InitPure ==
    /\ arg = <<>>
    /\ res = <<>>

\* HostImportRegistry::new(): no import is registered.
InitImp ==
    /\ imports = [n \in ImportNames |-> <<>>]
    /\ registered = [n \in ImportNames |-> <<>>]
    /\ invoked = <<>>

\* An empty store, no upload created.
InitBucket ==
    /\ store = [key \in BucketKeys |-> <<>>]
    /\ nextUpload = 0
    /\ appended = [id \in UploadIds |-> <<>>]
    /\ bres = BucketResult("none", FALSE, "", <<>>, 0)

\* init_bucket on an empty directory: no file, nothing cached, no upload.
InitNative ==
    /\ files = [key \in NativeKeys \cup NativeIds |-> <<>>]
    /\ cache = [e \in (NativeKeys \cup NativeIds) \X Ranges |-> <<>>]
    /\ multipart_cache = [id \in NativeIds |-> <<>>]
    /\ nextNative = 0
    /\ nres = NativeResult("none", FALSE, <<>>, <<>>, <<>>)

\* WitCommandDispatcher::new(): no handler is registered.
InitWit ==
    /\ handlers = [n \in WitNames |-> <<>>]
    /\ lastReg = [n \in WitNames |-> <<>>]
    /\ executed = <<>>
    /\ wres = <<>>

Init ==
    /\ InitOut /\ InitIn /\ InitProxy /\ InitReg /\ InitPure /\ InitImp
    /\ InitBucket /\ InitNative /\ InitWit

\* The guest -> host direction of the bridge.
NextOut ==
    \/ \E bytes \in Chunks : GuestWrite(bytes) /\ UNCHANGED <<inVars, proxyVars, regVars, pureVars, impVars, extVars>>
    \/ HostRecv /\ UNCHANGED <<inVars, proxyVars, regVars, pureVars, impVars, extVars>>

SpecOut == Init /\ [][NextOut]_vars

\* The host -> guest direction of the bridge. The reading guest thread is
\* scheduled by the operating system, hence weak fairness of its steps.
NextIn ==
    \/ \E r \in StreamMsgs : HostSend(r) /\ UNCHANGED <<outVars, proxyVars, regVars, pureVars, impVars, extVars>>
    \/ ForwarderRecv /\ UNCHANGED <<outVars, proxyVars, regVars, pureVars, impVars, extVars>>
    \/ ForwarderPush /\ UNCHANGED <<outVars, proxyVars, regVars, pureVars, impVars, extVars>>
    \/ ReadCall /\ UNCHANGED <<outVars, proxyVars, regVars, pureVars, impVars, extVars>>
    \/ ReadReturn /\ UNCHANGED <<outVars, proxyVars, regVars, pureVars, impVars, extVars>>
    \/ ReadSleep /\ UNCHANGED <<outVars, proxyVars, regVars, pureVars, impVars, extVars>>
    \/ ReadWake /\ UNCHANGED <<outVars, proxyVars, regVars, pureVars, impVars, extVars>>

SpecIn ==
    Init /\ [][NextIn]_vars /\ WF_vars(ReadStep /\ UNCHANGED <<outVars, proxyVars, regVars, pureVars, impVars, extVars>>)

\* The storage-proxy driver running in the guest against the host loop.
NextProxy ==
    \/ DriverQuery /\ UNCHANGED <<regVars, pureVars, impVars, extVars>>
    \/ DriverExecute /\ UNCHANGED <<regVars, pureVars, impVars, extVars>>
    \/ DriverDebug /\ UNCHANGED <<regVars, pureVars, impVars, extVars>>
    \/ DriverMatch /\ UNCHANGED <<regVars, pureVars, impVars, extVars>>
    \/ HostTake /\ UNCHANGED <<regVars, pureVars, impVars, extVars>>
    \/ HostReply /\ UNCHANGED <<regVars, pureVars, impVars, extVars>>
    \/ HostFail /\ UNCHANGED <<regVars, pureVars, impVars, extVars>>
    \/ ForwarderRecv /\ UNCHANGED <<outVars, proxyVars, regVars, pureVars, impVars, extVars>>
    \/ ForwarderPush /\ UNCHANGED <<outVars, proxyVars, regVars, pureVars, impVars, extVars>>
    \/ ReadReturn /\ UNCHANGED <<outVars, proxyVars, regVars, pureVars, impVars, extVars>>
    \/ ReadSleep /\ UNCHANGED <<outVars, proxyVars, regVars, pureVars, impVars, extVars>>
    \/ ReadWake /\ UNCHANGED <<outVars, proxyVars, regVars, pureVars, impVars, extVars>>

SpecProxy == Init /\ [][NextProxy]_vars

\* Single calls of the command codec, the host functions and send_command.
CmdFrame == UNCHANGED <<outVars, inVars, proxyVars, regVars, impVars, extVars>>

NextCmd ==
    \/ \E ty \in EnumTypes : \E v \in EnumVals(ty) : RoundTrip(ty, v) /\ CmdFrame
    \/ \E slot \in Slots, command \in CommandTexts, payload \in ShortStrs :
            Execute(slot, command, payload) /\ CmdFrame
    \/ \E slot \in Slots, level \in LevelTexts, message \in ShortStrs :
            Log(slot, level, message) /\ CmdFrame
    \/ \E cmd \in GuestCommandsVals, g \in GuestOutcomes : SendCommand(cmd, g) /\ CmdFrame
    \/ \E cmd \in GuestCommandsVals, slot \in Slots : HybridSend(cmd, slot) /\ CmdFrame

SpecCmd == Init /\ [][NextCmd]_vars

\* Single round trips of a dynamic value through RON text.
NextRon ==
    \/ \E p \in RonInputs : RonRoundTrip(p.t, p.v) /\ CmdFrame
    \/ \E p \in DecodeInputs : RonDecode(p.t, p.v) /\ CmdFrame

SpecRon == Init /\ [][NextRon]_vars

\* The storage proxy's driver emitting one Execute request.
NextSql == \E sql \in SqlTexts, values \in SqlValueLists :
                ProxyDbExecute(sql, values) /\ CmdFrame

SpecSql == Init /\ [][NextSql]_vars

\* One owner of a store using the default multipart upload.
BucketFrame ==
    UNCHANGED <<outVars, inVars, proxyVars, regVars, pureVars, impVars,
                nativeVars, witVars>>

NextBucket ==
    \/ \E key \in UserKeys, value \in BucketData :
            BucketStoreSet(key, value) /\ BucketFrame
    \/ create_multipart_upload /\ BucketFrame
    \/ \E id \in UploadIds, data \in BucketData :
            append_multipart_upload(id, data) /\ BucketFrame
    \/ \E id \in UploadIds, key \in {<<>>} \cup {<<k>> : k \in UserKeys} :
            complete_multipart_upload(id, key) /\ BucketFrame
    \/ \E id \in UploadIds : abort_multipart_upload(id) /\ BucketFrame

SpecBucket == Init /\ [][NextBucket]_vars

\* One owner of a native bucket.
NativeFrame ==
    UNCHANGED <<outVars, inVars, proxyVars, regVars, pureVars, impVars,
                bucketVars, witVars>>

NextNative ==
    \/ \E key \in NativeKeys, value \in NativeData :
            ProxyBucketSet(key, value) /\ NativeFrame
    \/ \E key \in NativeKeys, range \in {<<>>} \cup {<<r>> : r \in Ranges} :
            ProxyBucketGet(key, range) /\ NativeFrame
    \/ \E key \in NativeKeys : ProxyBucketDelete(key) /\ NativeFrame
    \/ ProxyBucketCreate /\ NativeFrame
    \/ \E id \in NativeIds, data \in NativeParts :
            ProxyBucketAppend(id, data) /\ NativeFrame
    \/ \E id \in NativeIds, key \in {<<>>} \cup {<<k>> : k \in NativeKeys} :
            ProxyBucketComplete(id, key) /\ NativeFrame
    \/ \E id \in NativeIds : ProxyBucketAbort(id) /\ NativeFrame

SpecNative == Init /\ [][NextNative]_vars

\* The dispatcher in the hands of its owner.
WitFrame ==
    UNCHANGED <<outVars, inVars, proxyVars, regVars, pureVars, impVars,
                bucketVars, nativeVars>>

NextWit ==
    \/ \E name \in WitNames, ty \in WitTypes, h \in WitHandlers :
            WitRegister(name, ty, h) /\ WitFrame
    \/ \E command \in WitCommands : dispatch(command) /\ WitFrame

SpecWit == Init /\ [][NextWit]_vars

\* The host import registry in the hands of its owner.
ImpFrame == UNCHANGED <<outVars, inVars, proxyVars, regVars, extVars>>

NextImp ==
    \/ \E name \in ImportNames, params \in Signatures, results \in Signatures,
          h \in ImportHandlers : register(name, params, results, h) /\ ImpFrame
    \/ \E name \in ImportNames, args \in ImportArgs : call(name, args) /\ ImpFrame
    \/ list_imports /\ ImpFrame
    \/ \E name \in ImportNames : get_signature(name) /\ ImpFrame

SpecImp == Init /\ [][NextImp]_vars

\* Threads sharing one Registry, its Containers and a cloneable Container.
RegFrame == UNCHANGED <<outVars, inVars, proxyVars, pureVars, impVars, extVars>>

NextReg ==
    \/ \E t \in Threads, o \in Ops : Call(t, o) /\ RegFrame
    \/ \E t \in Threads : ImageNew(t) /\ RegFrame
    \/ \E t \in Threads : LockImages(t) /\ RegFrame
    \/ \E t \in Threads : RegisterImage(t) /\ RegFrame
    \/ \E t \in Threads : GetImage(t) /\ RegFrame
    \/ \E t \in Threads : RemoveImage(t) /\ RegFrame
    \/ \E t \in Threads : ListImages(t) /\ RegFrame
    \/ \E t \in Threads : RunContainerGetImage(t) /\ RegFrame
    \/ \E t \in Threads, fails \in BOOLEAN : ContainerNew(t, fails) /\ RegFrame
    \/ \E t \in Threads : LockContainers(t) /\ RegFrame
    \/ \E t \in Threads : LockContainersAgainBlocks(t) /\ RegFrame
    \/ \E t \in Threads : LockContainersAgainPanics(t) /\ RegFrame
    \/ \E t \in Threads : RunContainerInsert(t) /\ RegFrame
    \/ \E t \in Threads : StopContainer(t) /\ RegFrame
    \/ \E t \in Threads : ListContainers(t) /\ RegFrame
    \/ \E t \in Threads : GetContainerMutMiss(t) /\ RegFrame
    \/ \E t \in Threads : GetContainerMutOnExecute(t) /\ RegFrame
    \/ \E t \in Threads : GetContainerMutCall(t) /\ RegFrame
    \/ \E t \in Threads, c \in Cids : DirectCall(t, c) /\ RegFrame
    \/ \E t \in Threads, c \in Cids : DirectOnExecute(t, c) /\ RegFrame
    \/ \E t \in Threads : GuestCallsExecute(t) /\ RegFrame
    \/ \E t \in Threads : HandlerReturns(t) /\ RegFrame
    \/ \E t \in Threads, outcome \in {"ok", "err", "trap"} :
            GuestReturns(t, outcome) /\ RegFrame
    \/ \E t \in Threads : LegacyRun(t) /\ RegFrame

SpecReg == Init /\ [][NextReg]_vars

\* ------------------------------------------------------------------ claims
HasNewline(bytes) == \E i \in 1..Len(bytes) : bytes[i] = NL

Count(seq, P(_)) == Cardinality({i \in 1..Len(seq) : P(seq[i])})
NeedsReply(m) == m[1] # "Debug"

\* Requests issued by the driver that have been neither answered to it nor
\* dropped: on their way to the host, being served, or answered with the
\* response on its way back.
InFlight ==
    Count(txOut, NeedsReply) + Len(hcur) + Len(txIn) + Len(fwd) + Len(tasks)
    + (IF dpc = "await" /\ rpc = "idle" THEN 1 ELSE 0)

C4_NewlineFraming ==
    \A i \in 1..Len(lastWrite) :
        ~HasNewline(lastWrite[i].bytes) =>
            /\ lastWrite[i].delivered = 0
            /\ lastWrite[i].result = "ok"

\* C5 (as claimed): a write whose bytes do not parse as a Message returns the
\* LastOperationFailed stream error and leaves the guest able to write again.
C5_ParseFailureReturned ==
    \A i \in 1..Len(lastWrite) :
        FromSlice(lastWrite[i].bytes, StreamMsgs) = <<>> =>
            /\ lastWrite[i].result = "LastOperationFailed"
            /\ guest = "running"

RECURSIVE DecodeAll(_)
DecodeAll(lines) ==
    IF lines = <<>> THEN <<>>
    ELSE FromSlice(Head(lines), StreamMsgs) \o DecodeAll(Tail(lines))

\* C6: the records the guest has read from its stdin, decoded, followed by
\* the responses still queued (tasks, the forwarder's hand, the channel), are
\* exactly the responses the host has sent, in order, each once.
C6_FifoToGuest == DecodeAll(readLog) \o tasks \o fwd \o txIn = hostSent

C6_Witness ==
    /\ Len(readLog) >= 2
    /\ readLog[1] # readLog[2]
    /\ tasks # <<>>

\* C7: a read returns only by dequeuing exactly the oldest message and
\* handing back its newline-terminated record; on an empty queue it neither
\* returns nor fails; and a waiting read returns once a message is queued.
C7_BlockingRead ==
    /\ [][(rpc # "idle" /\ rpc' = "idle") =>
            /\ Len(tasks) > 0
            /\ tasks' = Tail(tasks)
            /\ readLog' = Append(readLog, JsonLine(Head(tasks)))]_vars
    /\ [][(rpc # "idle" /\ rpc' # "idle") => readLog' = readLog]_vars
    /\ ((rpc # "idle" /\ tasks # <<>>) ~> (rpc = "idle"))

C7_Witness ==
    /\ rpc = "sleeping"
    /\ tasks # <<>>
    /\ readLog # <<>>

\* The thread's execute-handler has asked the Registry for a guest call on the
\* very Container whose guest call it is serving.
NestedCallOnSame(t) ==
    /\ frames[t] # <<>>
    /\ op[t].f = "get_container_mut"
    /\ op[t].m = "send_command"
    /\ containers[op[t].n] = <<Top(t).c>>

\* C3 (as claimed): a guest call that an execute-handler issues on the
\* Container it is serving goes ahead; the calling thread is never left
\* blocked for ever on it.
C3_ReentryPermitted ==
    \A t \in Threads : NestedCallOnSame(t) => pc[t] # "deadlocked"

\* C8: a name registered with success and not removed by remove_image since
\* is in the image map, and every get_image of such a name returned an Image.
C8_ImageStaysRegistered ==
    /\ \A n \in Names : present[n] => images[n] # <<>>
    /\ \A t \in Threads : ret[t].exp => ret[t].ok

C8_Witness ==
    /\ present["b"]
    /\ \E t \in Threads : ret[t].f = "get_image" /\ ret[t].exp /\ ret[t].ok

InImagesSection(t) == pc[t] = "img_cs"
InContainersSection(t) ==
    \/ pc[t] = "ctr_cs"
    \/ \E i \in 1..Len(frames[t]) : frames[t][i].via = "registry"

\* C9 (as claimed): one mutex guards both maps, so at most one thread is
\* inside a Registry critical section, whichever map it works on.
C9_OneLockForBothMaps ==
    Cardinality({t \in Threads : InImagesSection(t) \/ InContainersSection(t)}) <= 1

\* C9 (amended): a thread works on the image map only while it holds the
\* images mutex and on the container map only while it holds the containers
\* mutex, so at most one thread at a time is inside each map's sections.
C9_OneLockPerMap ==
    /\ \A t \in Threads : InImagesSection(t) => imagesLock = t
    /\ \A t \in Threads : InContainersSection(t) => containersLock = t
    /\ Cardinality({t \in Threads : InImagesSection(t)}) <= 1
    /\ Cardinality({t \in Threads : InContainersSection(t)}) <= 1

C9_Witness ==
    \E t \in Threads, u \in Threads :
        /\ t # u
        /\ InImagesSection(t)
        /\ pc[u] = "img_lock"

\* The guest calls in progress on container c, over all threads.
CallsOn(c) ==
    {ti \in Threads \X (1..MaxDepth) :
        ti[2] <= Len(frames[ti[1]]) /\ frames[ti[1]][ti[2]].c = c}

\* C10: at most one guest invocation is in progress on any one Container,
\* whether entered through get_container_mut, on an owned Container, or
\* through a clone sharing the store.
C10_OneCallPerContainer ==
    \A c \in Cids \cup {LegacyCid} : Cardinality(CallsOn(c)) <= 1

C10_Witness ==
    \E t \in Threads, u \in Threads :
        /\ t # u
        /\ pc[t] = "guest"
        /\ Top(t).via = "registry"
        /\ pc[u] = "ctr_lock"
        /\ op[u].f = "get_container_mut"
        /\ op[u].m = "send_command"
        /\ containers[op[u].n] = <<Top(t).c>>

\* Thread u waits for the containers mutex to call the guest of a registered
\* Container other than c.
WantsOther(u, c) ==
    /\ pc[u] = "ctr_lock"
    /\ op[u].f = "get_container_mut"
    /\ op[u].m = "send_command"
    /\ containers[op[u].n] # <<>>
    /\ containers[op[u].n] # <<c>>

\* C11 (as claimed): while a guest call is in progress on one Container, a
\* thread about to call the guest of another Container through the Registry
\* is not held up: the lock it needs is free.
C11_OtherContainerNotBlocked ==
    \A t \in Threads, u \in Threads :
        (t # u /\ frames[t] # <<>> /\ WantsOther(u, Top(t).c)) => containersLock = 0

\* C12 (as claimed): a thread holds a Registry mutex only inside a map
\* insert, lookup or removal, never while it compiles, instantiates, or runs
\* a callback or guest code.
C12_ShortCriticalSections ==
    \A t \in Threads :
        (imagesLock = t \/ containersLock = t) => pc[t] \in {"img_cs", "ctr_cs"}

\* C13 (as claimed): a Container on which a guest call has trapped is no
\* longer in the Registry's container map.
C13_TrapDropsName ==
    \A c \in trapped : \A n \in Names : containers[n] # <<c>>

\* Thread t is returning from get_container_mut(n, |c| c.on_execute(h)) on c.
InstallsOn(t, c) ==
    /\ pc[t] = "ctr_cs"
    /\ op[t].f = "get_container_mut"
    /\ op[t].m = "on_execute"
    /\ containers[op[t].n] = <<c>>
    /\ pc'[t] # "ctr_cs"

\* C19 (as claimed): once a guest call has been made on a Container its
\* execute-handler slot does not change.
C19_HandlersFixedAfterFirstCall ==
    [][\A c \in Cids : handler'[c] # handler[c] => c \notin called]_vars

\* C19 (amended): a Container's execute-handler slot is set or replaced only
\* while no guest call is in progress on that Container.
C19_NoReplaceDuringCall ==
    [][\A c \in Cids :
          (handler'[c] # handler[c] \/ \E t \in Threads : InstallsOn(t, c))
              => CallsOn(c) = {}]_vars

C19_Witness ==
    /\ handler[2]
    /\ 2 \in called
    /\ CallsOn(2) = {}
    /\ \E t \in Threads : ret[t].f = "get_container_mut" /\ ret[t].ok

\* The call a behaviour of SpecCmd made.
Made(f) == arg # <<>> /\ arg[1].f = f

\* C15: for every value cmd of HostCommands, GuestCommands, HostResponse and
\* GuestResponse, deserialize_command(serialize_command(cmd)) succeeds and
\* equals cmd.
C15_CommandRoundTrip ==
    Made("roundtrip") => res[1].ok /\ res[1].v = arg[1].v

C15_Witness ==
    /\ Made("roundtrip")
    /\ arg[1].ty = "GuestCommands"
    /\ arg[1].v = Node("CallHost", <<QUOTE, BSLASH>>, <<>>)
    /\ res[1].ok

\* C16: send_command returns an error naming the failing phase when the guest
\* call or the decoding of the reply fails (serializing a command cannot fail);
\* when the guest returns Err(e) the caller gets an error carrying e, never a
\* response; a response is returned only for a reply that decodes to it.
C16_SendCommandErrors ==
    Made("send_command") =>
        /\ arg[1].g.k = "trap" =>
              ~res[1].ok /\ res[1].err = <<"Failed to call guest handle_command">>
        /\ arg[1].g.k = "err" =>
              ~res[1].ok /\ res[1].err = <<"Guest handle_command failed: ">> \o arg[1].g.s
        /\ (arg[1].g.k = "ok" /\ ~deserialize_command("GuestResponse", arg[1].g.s).ok) =>
              ~res[1].ok /\ res[1].err = <<"Failed to deserialize response: ">>
        /\ res[1].ok =>
              /\ arg[1].g.k = "ok"
              /\ serialize_command("GuestResponse", res[1].v).text = arg[1].g.s

C16_Witness ==
    /\ Made("send_command")
    /\ arg[1].g = GuestOutcome("err", <<"x">>)
    /\ ~res[1].ok
    /\ res[1].err = <<"Guest handle_command failed: ", "x">>

\* C17: when execute(command_text, payload) gets a command_text that does not
\* deserialize as a tagged host command, the call does not fail on parsing: the
\* execute-handler is invoked with Custom{name: command_text, data: payload},
\* and the call's result is the handler's.
C17_LegacyCommandIsCustom ==
    (/\ Made("execute")
     /\ arg[1].slot # <<>>
     /\ ~deserialize_command("HostCommands", arg[1].command).ok) =>
        /\ res[1].invoked =
              <<Node("Custom", <<>>, <<Str(arg[1].command), Str(arg[1].payload)>>)>>
        /\ res[1].ok = (arg[1].slot = <<"hybrid">>)

C17_Witness ==
    /\ Made("execute")
    /\ arg[1].slot = <<"hybrid">>
    /\ arg[1].command = <<"get_info">>
    /\ arg[1].payload = <<"x">>
    /\ res[1].ok
    /\ res[1].out = JsonStr(<<"Custom command '", "get_info", "' with data: ", "x">>)

\* C18: execute(...) with no execute-handler installed returns an error to the
\* guest, never a response, and runs no handler; log, which has a default when
\* its slot is empty, needs no handler and does not fail.
C18_MissingHandlerIsError ==
    /\ (Made("execute") /\ arg[1].slot = <<>>) =>
          /\ ~res[1].ok
          /\ res[1].out = <<"No execute handler registered">>
          /\ res[1].invoked = <<>>
    /\ (Made("log") /\ arg[1].slot = <<>>) =>
          /\ res[1].ok
          /\ res[1].invoked = <<>>
          /\ res[1].out = <<"[", LogLevelFrom(arg[1].level), "] ">> \o arg[1].message

C18_Witness ==
    /\ Made("execute")
    /\ arg[1].slot = <<>>
    /\ arg[1].command = TaggedToJson(Node("GetInfo", <<>>, <<>>))
    /\ ~res[1].ok

\* C20: with an execute-handler that answers Echo(msg) with Text(msg),
\* send_command(CallHost(x)) returns GuestResponse::Text("Host echoed back: "
\* + x) for every string x.
C20_HostEchoedBack ==
    (/\ Made("hybrid")
     /\ arg[1].slot = <<"hybrid">>
     /\ arg[1].cmd.k = "CallHost") =>
        /\ res[1].ok
        /\ res[1].v = Node("Text", <<"Host echoed back: ">> \o arg[1].cmd.s, <<>>)

\* C14: for every dynamic value v (nested lists, tuples, records, variants,
\* options and results, and the empty list, tuple and record included) with
\* matching descriptor t, ron_to_val(val_to_ron(v), t) succeeds and is
\* structurally equal to v.
C14_RonRoundTrip ==
    Made("ron") => res[1].ok /\ res[1].v = arg[1].v

\* Thread t leaves the critical section of operation f in this step.
Leaves(t, cs, f) == pc[t] = cs /\ op[t].f \in f /\ pc'[t] # cs

\* C25: registering an image under a name already registered succeeds and
\* replaces the old image: the map then holds for that name the image of the
\* latest bytes, once, the other names keep theirs, and get_image returns what
\* the map holds.
C25_ReRegisterOverwrites ==
    [][\A t \in Threads :
        /\ Leaves(t, "img_cs", {"register_image", "register_component"}) =>
              /\ images' = [images EXCEPT ![op[t].n] = <<op[t].m>>]
              /\ ret'[t].ok
        /\ Leaves(t, "img_cs", {"get_image"}) => ret'[t].img = images[op[t].n]
        /\ Leaves(t, "img_cs", {"list_images"}) =>
              ret'[t].names = {n \in Names : images[n] # <<>>}]_vars

C25_Witness ==
    /\ containers["b"] # <<>>
    /\ images["a"] = <<"b2">>
    /\ \E t \in Threads : ret[t].f = "get_image" /\ ret[t].img = <<"b2">>

\* C26: stop_container(n) removes n from the container map and hands the
\* Container to the caller: the step empties the entry and returns whether
\* there was one (so a second stop returns nothing), list_containers and
\* get_container_mut read the emptied map, and a Container a thread owns is
\* under no name in the Registry and owned by no other thread.
C26_StopMovesOut ==
    /\ [](\A t \in Threads : \A c \in owned[t] :
            /\ \A n \in Names : containers[n] # <<c>>
            /\ \A u \in Threads \ {t} : c \notin owned[u])
    /\ [][\A t \in Threads :
            /\ Leaves(t, "ctr_cs", {"stop_container"}) =>
                  /\ containers' = [containers EXCEPT ![op[t].n] = <<>>]
                  /\ ret'[t].ok = (containers[op[t].n] # <<>>)
                  /\ \A c \in Cids : containers[op[t].n] = <<c>> => c \in owned'[t]
            /\ Leaves(t, "ctr_cs", {"list_containers"}) =>
                  ret'[t].names = {n \in Names : containers[n] # <<>>}
            /\ (Leaves(t, "ctr_cs", {"get_container_mut"}) /\ containers[op[t].n] = <<>>) =>
                  ~ret'[t].ok /\ frames' = frames]_vars

C26_Witness ==
    /\ owned[1] = {1}
    /\ containers["a"] = <<>>
    /\ ret[1].f = "stop_container"
    /\ ~ret[1].ok

\* C27: when building the Image fails, register_image / register_component
\* returns the error and the Registry is unchanged: no entry is added and an
\* image registered before under the name is still there; no image of bytes
\* that do not build is ever in the map.
C27_FailedBuildChangesNothing ==
    /\ [](\A n \in Names : images[n] = <<>> \/ images[n][1] \in GoodBins)
    /\ [][\A t \in Threads :
            (pc[t] = "compile" /\ op[t].m \notin GoodBins /\ pc'[t] # "compile") =>
                /\ images' = images
                /\ containers' = containers
                /\ ~ret'[t].ok
                /\ ret'[t].f = op[t].f
                /\ pc'[t] \in {"idle", "handler"}]_vars

C27_Witness ==
    /\ images["a"] = <<"b1">>
    /\ \E t \in Threads : ret[t].f = "register_image" /\ ~ret[t].ok
    /\ \E t \in Threads : ret[t].f = "get_image" /\ ret[t].img = <<"b1">>

\* C23: register is a replace: the registry holds for every name exactly the
\* last registration made under it (one entry per name, list_imports names
\* each registered name once), and get_signature and call use the parameters,
\* results and handler of that last registration.
C23_RegisterReplaces ==
    /\ imports = registered
    /\ Made("list_imports") =>
          /\ Len(res[1]) = Cardinality({n \in ImportNames : registered[n] # <<>>})
          /\ \A n \in ImportNames :
                registered[n] # <<>> => \E i \in 1..Len(res[1]) : res[1][i] = n
    /\ (Made("get_signature") /\ registered[arg[1].name] # <<>>) =>
          res[1] = <<[params |-> registered[arg[1].name][1].params,
                      results |-> registered[arg[1].name][1].results]>>
    /\ (Made("call") /\ registered[arg[1].name] # <<>>) =>
          /\ Len(invoked) = 1
          /\ invoked[1].h = registered[arg[1].name][1].handler

C23_Witness ==
    /\ Made("call")
    /\ arg[1].name = "add"
    /\ imports["add"] = <<HostImport("add", <<>>, <<>>, "unit")>>
    /\ imports["test-func"] # <<>>
    /\ res[1] = [ok |-> TRUE, v |-> <<>>, err |-> <<>>]

\* C24: call(name, args) on a registered name invokes that name's handler
\* once with args as given and returns what the handler returns, values or
\* error; on a name that is not registered it fails with the not-found error
\* and invokes no handler. The u32 addition called with 10 and 32 returns 42.
C24_CallReturnsHandlerResult ==
    Made("call") =>
        IF imports[arg[1].name] # <<>>
        THEN /\ invoked = <<[h |-> imports[arg[1].name][1].handler, args |-> arg[1].args]>>
             /\ res[1] = HandlerCall(invoked[1].h, invoked[1].args)
             /\ (invoked[1].h = "add" /\ arg[1].args = <<U32(10), U32(32)>>) =>
                    res[1].ok /\ res[1].v = <<U32(42)>>
             /\ (invoked[1].h = "add" /\ arg[1].args[2].k = "string") =>
                    ~res[1].ok /\ res[1].err = <<"Type error">>
        ELSE /\ invoked = <<>>
             /\ ~res[1].ok
             /\ res[1].err = <<"Host import not found: ", arg[1].name>>

C24_Witness ==
    /\ Made("call")
    /\ arg[1].name = "add"
    /\ arg[1].args = <<U32(10), U32(32)>>
    /\ imports["add"] # <<>>
    /\ imports["add"][1].handler = "add"
    /\ imports["test-func"] = <<>>
    /\ res[1].v = <<U32(42)>>

\* The statement with its i-th mark, counted in the statement itself,
\* replaced by the literal of the i-th value, as far as there are values.
RECURSIVE Positional(_, _)
Positional(sql, values) ==
    IF sql = <<>> THEN <<>>
    ELSE IF sql[1] = MARK /\ values # <<>>
         THEN ValueToString(values[1]) \o Positional(Tail(sql), Tail(values))
         ELSE <<sql[1]>> \o Positional(Tail(sql), IF sql[1] = MARK THEN <<>> ELSE values)

\* C28: when an Execute statement carries bound values, the SQL text emitted
\* has the i-th placeholder of the original statement replaced by the literal
\* of the i-th value, strings single-quoted and integers in decimal, also for
\* values whose own text contains the mark.
C28_PlaceholdersByPosition ==
    (Made("db_execute") /\ arg[1].values # <<>>) =>
        res[1] = Positional(arg[1].sql, arg[1].values[1])

\* C21: u64::MAX, i64::MIN, f32::INFINITY and f64::NEG_INFINITY each survive
\* val_to_ron followed by ron_to_val with their own descriptor: the
\* conversion back succeeds and gives the same value.
C21_ExtremesRoundTrip ==
    (/\ Made("ron")
     /\ arg[1].v \in {Val("u64", 0, <<>>, U64Max), Val("s64", 0, <<>>, I64Min),
                      Val("f32", 0, <<"inf">>, <<>>), Val("f64", 0, <<"-inf">>, <<>>)})
        => res[1].ok /\ res[1].v = arg[1].v

\* The integer v is within the range of the integer type k.
Fits(v, k) ==
    /\ Cast(v.a, k) = v.a
    /\ (v.a[1] >= Limb \div 2) => (Signed(v.k) = Signed(k))

\* C22: converting an integer literal outside the range of the descriptor's
\* integer type fails; it never gives a wrapped or truncated value.
C22_OutOfRangeFails ==
    (/\ Made("decode")
     /\ arg[1].t.k \in IntKinds
     /\ arg[1].v.k \in IntKinds
     /\ ~Fits(arg[1].v, arg[1].t.k))
        => ~res[1].ok

\* The texts with ", " between them.
RECURSIVE Listed(_)
Listed(texts) ==
    IF texts = <<>> THEN <<>>
    ELSE texts[1] \o (IF Len(texts) = 1 THEN <<>> ELSE <<", ">> \o Listed(Tail(texts)))

\* C29: the text of a value follows its shape: [e1, e2, ...] for a list,
\* (e1, e2, ...) for a tuple, {k1: v1, ...} for a record, Some(v) or None for
\* an option, Ok(v) or Err(v) for a result, where the parts are the texts of
\* the elements by the same rule; a finite float is in exponent notation.
C29_TextFollowsShape ==
    (Made("ron") \/ Made("decode")) =>
        LET v == arg[1].v
            text == arg[1].text
            e == [i \in 1..Len(v.a) |-> val_to_ron(v.a[i])]
        IN  /\ v.k = "list" => text = <<"[">> \o Listed(e) \o <<"]">>
            /\ v.k = "tuple" => text = <<"(">> \o Listed(e) \o <<")">>
            /\ v.k = "record" =>
                  text = <<"{">> \o Listed([i \in 1..Len(e) |-> <<v.s[i], ": ">> \o e[i]])
                               \o <<"}">>
            /\ v.k = "option" =>
                  text = IF v.a = <<>> THEN <<"None">> ELSE <<"Some", "(">> \o e[1] \o <<")">>
            /\ (v.k = "result" /\ v.a # <<>>) => text = <<v.s[1], "(">> \o e[1] \o <<")">>
            /\ (v.k \in FloatKinds /\ v.s[1] = "1.5") => text = <<"1", ".", "5", "e", "0">>
            /\ v.k \in IntKinds => text # <<>> /\ \A i \in 2..Len(text) : text[i] \in DigitChars

C29_Witness ==
    /\ Made("ron")
    /\ arg[1].v = Val("option", 0, <<>>, <<Val("u16", 0, <<>>, Word(200))>>)
    /\ arg[1].text = <<"Some", "(", "2", "0", "0", ")">>

\* C30: converting the text of a list or a tuple with a tuple descriptor of
\* another number of elements fails, and a conversion that succeeds with a
\* list or a tuple descriptor gives as many elements as the text has: none is
\* dropped and none invented.
C30_ArityChecked ==
    (/\ Made("decode")
     /\ arg[1].t.k \in {"list", "tuple"}
     /\ arg[1].v.k \in {"list", "tuple"}) =>
        /\ (arg[1].t.k = "tuple" /\ Len(arg[1].v.a) # Len(arg[1].t.a)) => ~res[1].ok
        /\ res[1].ok => /\ Len(res[1].v.a) = Len(arg[1].v.a)
                        /\ res[1].v.k = arg[1].t.k

C30_Witness ==
    /\ Made("decode")
    /\ arg[1].t.k = "tuple"
    /\ Len(arg[1].t.a) = 2
    /\ arg[1].v.k = "tuple"
    /\ Len(arg[1].v.a) = 1
    /\ arg[1].v.a[1].k = arg[1].t.a[1].k
    /\ ~res[1].ok

\* The record is one line: it ends with a newline and has no other.
OneLine(rec) ==
    /\ rec # <<>>
    /\ rec[Len(rec)] = NL
    /\ \A i \in 1..(Len(rec) - 1) : rec[i] # NL

C33_EveryRequestAnswered ==
    hostSent \o hcur = SelectSeq(hostGot, NeedsReply)

\* The container id is in use: under a name or owned by a thread.
InUse(c) ==
    \/ \E n \in Names : containers[n] = <<c>>
    \/ \E u \in Threads : c \in owned[u]

\* C34: run_container goes on past its image lookup only if the image name
\* is registered then, and reaches the insert only through the lookup and the
\* instantiation; when it returns Ok the container name refers to a container
\* made by this call, whatever was under the name before, and no other name
\* changes; every other step of the call, a failing return included, leaves the
\* container map as it was.
C34_RunContainer ==
    [][\A t \in Threads :
        (op[t].f = "run_container" /\ pc'[t] # pc[t]) =>
            /\ pc'[t] = "instantiate" => pc[t] = "img_cs" /\ images[op[t].n] # <<>>
            /\ (pc[t] = "img_cs" /\ images[op[t].n] = <<>>) =>
                    ret'[t] = [NoRet EXCEPT !.f = "run_container"]
            /\ pc'[t] = "ctr_lock" => pc[t] = "instantiate"
            /\ pc'[t] = "ctr_cs" => pc[t] = "ctr_lock"
            /\ IF ret'[t].ok
               THEN /\ pc[t] = "ctr_cs"
                    /\ ret'[t].f = "run_container"
                    /\ ~InUse(nextCid')
                    /\ containers' = [containers EXCEPT ![op[t].m] = <<nextCid'>>]
               ELSE containers' = containers]_vars

C34_Witness ==
    \E t \in Threads :
        /\ ret[t].f = "run_container"
        /\ ret[t].ok
        /\ nextCid = 2
        /\ containers["a"] = <<2>>
        /\ ~InUse(1)

\* The bytes of the parts, one after the other.
RECURSIVE Flat(_)
Flat(parts) == IF parts = <<>> THEN <<>> ELSE Head(parts) \o Flat(Tail(parts))

\* C35 (as claimed): when complete_multipart_upload returns Ok, the final key
\* holds the concatenation of every part appended to the upload, in append
\* order, and the reported size is its length.
C35_CompleteStoresAllParts ==
    (bres.f = "complete" /\ bres.ok) =>
        /\ store[bres.key] = <<Flat(appended[bres.id])>>
        /\ bres.size = Len(Flat(appended[bres.id]))

\* The bookkeeping keys of an upload: its counter and its parts.
Bookkeeping(id) == {CounterKey(id)} \cup {PartKey(id, i) : i \in 0..MaxParts}

\* C37 (as claimed): a complete or abort that returns Ok leaves no bookkeeping
\* key of the upload in the store, and abort changes no other key.
C37_NoBookkeepingLeft ==
    [][(bres'.f \in {"complete", "abort"} /\ bres'.ok) =>
            /\ \A key \in Bookkeeping(bres'.id) : store'[key] = <<>>
            /\ bres'.f = "abort" =>
                    \A key \in BucketKeys \ Bookkeeping(bres'.id) :
                        store'[key] = store[key]]_vars

\* The bytes of the file at the offsets start through end, both included.
Inclusive(file, start, end) ==
    SubSeq(file, start + 1, IF end + 1 < Len(file) THEN end + 1 ELSE Len(file))

\* C36 (as claimed): a ranged get that returns Ok returns the bytes the file
\* under the key holds now at the offsets start through end inclusive, whatever
\* was read and cached before the key was overwritten.
C36_RangedGetIsCurrent ==
    (nres.f = "get" /\ nres.ok /\ nres.range # <<>>) =>
        /\ files[nres.key] # <<>>
        /\ nres.data = <<Inclusive(files[nres.key][1], nres.range[1][1],
                                   nres.range[1][2])>>

\* C32: dispatch looks at the handler registered last under the command's
\* name: when there is one and it is a handler for the command's type,
\* dispatch executes it, once, and nothing else, and returns what it returned;
\* when the name has no handler, or the handler is for another command type,
\* dispatch returns the error for that case and executes nothing.
C32_DispatchRunsLatest ==
    wres # <<>> =>
        LET command == wres[1].cmd
            reg == lastReg[command.name]
        IN  IF reg = <<>>
            THEN /\ executed = <<>>
                 /\ ~wres[1].ok
                 /\ wres[1].v = <<"No handler registered for command: ", command.name>>
            ELSE IF reg[1].ty # command.ty
            THEN /\ executed = <<>>
                 /\ ~wres[1].ok
                 /\ wres[1].v = <<"Handler type mismatch for command: ", command.name>>
            ELSE /\ executed = <<reg[1].h>>
                 /\ wres[1].ok = HandlerExecute(reg[1].h, command).ok
                 /\ wres[1].v = HandlerExecute(reg[1].h, command).v

C32_Witness ==
    /\ wres # <<>>
    /\ wres[1].ok
    /\ lastReg[wres[1].cmd.name][1].replaced
    /\ executed = <<"answer">>
    /\ \E n \in WitNames : lastReg[n] # <<>> /\ lastReg[n][1].h = "refuse"

====
